---------------------------- MODULE Spec2Model ----------------------------
(***************************************************************************)
(* A model of the keycloak crate: the Keycloak client (keycloak.rs), its   *)
(* request/response types (types.rs), its error type (error.rs) and the    *)
(* claim shape it decodes (token_claim.rs).                                *)
(*                                                                         *)
(* Every async fn is cut at its suspension points (.await) and at the      *)
(* acquisition and release of the two RwLocks; everything between two      *)
(* cuts is one action.  The identity provider, the network, the clock and  *)
(* a panicking writer are the environment.                                 *)
(***************************************************************************)
EXTENDS Integers, Sequences, FiniteSets, TLC

(***************************************************************************)
(* Bounds of the model.                                                    *)
(***************************************************************************)
\* the clock runs over 0..MaxTime
MaxTime == 1

(***************************************************************************)
(* Option<T>: None is the empty sequence, Some(x) a sequence of one.       *)
(***************************************************************************)
None == <<>>
Some(x) == <<x>>
IsSome(o) == Len(o) = 1
Unwrap(o) == o[1]

(***************************************************************************)
(* reqwest::StatusCode values the code matches on.                         *)
(***************************************************************************)
OK == 200
UNAUTHORIZED == 401
CREATED == 201
\* the statuses the environment replies with
Statuses == {OK, CREATED, UNAUTHORIZED, 500}

(***************************************************************************)
(* Tasks (callers sharing one Arc<Keycloak>).                              *)
(***************************************************************************)
Tasks == {"r1", "w1", "c1"}
NoTask == "none"

(***************************************************************************)
(* CertKey {kid, n, e} and the key lists the provider publishes.  "bad"    *)
(* stands for a component that is not base64url.                           *)
(***************************************************************************)
Kids == {"k1", "k2"}
Mats == {"m1", "m2", "bad"}
CertKey(k, m) == [kid |-> k, n |-> m, e |-> "AQAB"]
KeyLists ==
    { <<>>,
      << CertKey("k1", "m1"), CertKey("k2", "bad") >>,
      << CertKey("k1", "m1"), CertKey("k1", "m2") >> }

(***************************************************************************)
(* TokenClaim, as far as the claims read it.  complete = FALSE is a        *)
(* payload that lacks a field of TokenClaim.                               *)
(***************************************************************************)
Users == {"alice", "bob"}
Profile(u) ==
    [complete |-> TRUE, email |-> u, given_name |-> u, family_name |-> u]
BadPayload ==
    [complete |-> FALSE, email |-> "", given_name |-> "", family_name |-> ""]

(***************************************************************************)
(* Token strings.  fmt "jwt" is a string with a parseable JOSE header;     *)
(* "garbage" is any other non-empty string, "empty" the empty string.      *)
(* mat is the modulus of the key pair that signed the token.               *)
(***************************************************************************)
Jwt(a, k, m, x, p) ==
    [fmt |-> "jwt", alg |-> a, kid |-> k, mat |-> m, exp |-> x, payload |-> p]
Garbage ==
    [fmt |-> "garbage", alg |-> "", kid |-> None, mat |-> "", exp |-> 0,
     payload |-> BadPayload]
Empty ==
    [fmt |-> "empty", alg |-> "", kid |-> None, mat |-> "", exp |-> 0,
     payload |-> BadPayload]

\* the token strings a caller of decode is given by the outside world
ForgedTokens ==
    { Garbage,
      Jwt("HS256", None, "m1", MaxTime, Profile("alice")),
      Jwt("HS256", Some("k1"), "m1", MaxTime, Profile("alice")),
      Jwt("RS256", None, "m1", MaxTime, Profile("alice")),
      Jwt("RS256", Some("k1"), "m1", MaxTime, BadPayload) }
    \cup { Jwt("RS256", Some(k), m, x, Profile("alice")) :
             k \in Kids, m \in {"m1", "m2"}, x \in 0..MaxTime }

(***************************************************************************)
(* KeycloakError.  status and body are those of ResponseError, text the    *)
(* message of Other and the kind of the jsonwebtoken error.                *)
(***************************************************************************)
NoBody ==
    [fmt |-> "none", keys |-> <<>>, fields |-> {}, access_token |-> Empty,
     refresh_token |-> "", active |-> FALSE]
Err(k, s, t, b) ==
    [ok |-> FALSE, kind |-> k, status |-> s, text |-> t, body |-> b, val |-> None]
Ok(v) ==
    [ok |-> TRUE, kind |-> "", status |-> 0, text |-> "", body |-> NoBody,
     val |-> Some(v)]
UnAuthorized == Err("UnAuthorized", 0, "", NoBody)
WriteLockFailed == Err("WriteLockFailed", 0, "", NoBody)
ReadLockFailed == Err("ReadLockFailed", 0, "", NoBody)
ResponseError(s, b) == Err("ResponseError", s, "", b)
RequestError == Err("RequestError", 0, "", NoBody)
JWTError(t) == Err("JWTError", 0, t, NoBody)
Other(t) == Err("Other", 0, t, NoBody)
NoRet == Err("", 0, "", NoBody)
Unit == "()"


(***************************************************************************)
(* HTTP bodies and responses (reqwest::Response).  fmt names what the body *)
(* is: "keys" a JSON object with a keys array, "token" a JSON object with  *)
(* the listed fields of TokenResponse, "introspect" a JSON object with an  *)
(* active flag, "error" some other JSON object, "text" not JSON at all,    *)
(* "readerr" a body whose transfer fails.                                  *)
(***************************************************************************)
TokenFields ==
    {"access_token", "refresh_token", "expires_in", "refresh_expires_in",
     "token_type"}
KeysBody(ks) ==
    [fmt |-> "keys", keys |-> ks, fields |-> {"keys"}, access_token |-> Empty,
     refresh_token |-> "", active |-> FALSE]
TokenBody(at, rt, fs) ==
    [fmt |-> "token", keys |-> <<>>, fields |-> fs, access_token |-> at,
     refresh_token |-> rt, active |-> FALSE]
IntrospectBody(a) ==
    [fmt |-> "introspect", keys |-> <<>>, fields |-> {"active"},
     access_token |-> Empty, refresh_token |-> "", active |-> a]
ErrorBody ==
    [fmt |-> "error", keys |-> <<>>, fields |-> {"error"},
     access_token |-> Empty, refresh_token |-> "", active |-> FALSE]
TextBody ==
    [fmt |-> "text", keys |-> <<>>, fields |-> {}, access_token |-> Empty,
     refresh_token |-> "", active |-> FALSE]
ReadErr ==
    [fmt |-> "readerr", keys |-> <<>>, fields |-> {}, access_token |-> Empty,
     refresh_token |-> "", active |-> FALSE]

\* send() failed: there is no response
SendErr == [sent |-> FALSE, status |-> 0, body |-> NoBody]
Resp(s, b) == [sent |-> TRUE, status |-> s, body |-> b]

\* response.json::<Keys>()
JsonKeys(b) == IF b.fmt = "keys" THEN Some(b.keys) ELSE None
\* response.json::<TokenResponse>(): every field of the struct is required
TokenResponse(b) ==
    [access_token |-> b.access_token, refresh_token |-> b.refresh_token,
     expires_in |-> 300, refresh_expires_in |-> 1800, token_type |-> "Bearer"]
\* a decoding that lets fields of the struct be missing
JsonTokenResponseLenient(b) ==
    IF b.fmt = "token" THEN Some(TokenResponse(b)) ELSE None
JsonTokenResponse(b) ==
    IF b.fmt = "token" /\ TokenFields \subseteq b.fields
    THEN Some(TokenResponse(b)) ELSE None
\* response.json::<TokenVerifyResponse>(): the body must have the active flag
JsonTokenVerifyResponse(b) ==
    IF b.fmt = "introspect" /\ "active" \in b.fields
    THEN Some([active |-> b.active]) ELSE None
\* response.text()
Text(b) == IF b.fmt = "readerr" THEN None ELSE Some(b)

(***************************************************************************)
(* cert_keys.keys.into_iter().map(|key| (key.kid.clone(), key)).collect(): *)
(* a HashMap built by inserting the keys in order, a later key replacing   *)
(* an earlier one of the same kid.                                         *)
(***************************************************************************)
EmptyMap == [k \in {} |-> CertKey("", "")]
RECURSIVE Collect(_)
Collect(ks) ==
    IF ks = <<>> THEN EmptyMap
    ELSE LET m == Collect(SubSeq(ks, 1, Len(ks) - 1))
             last == ks[Len(ks)]
         IN  [k \in (DOMAIN m) \cup {last.kid} |->
                 IF k = last.kid THEN last ELSE m[k]]

(***************************************************************************)
(* The memory behind RwLock<Option<HashMap<String, CertKey>>>.  tag "torn" *)
(* is that memory while `*lock = Some(..)` is being carried out: the old   *)
(* value is dropped and the new one moved in, so what is there is neither. *)
(***************************************************************************)
CellNone == [tag |-> "none", map |-> EmptyMap]
CellSome(m) == [tag |-> "some", map |-> m]
CellTorn(old, new) ==
    [tag |-> "torn",
     map |-> [k \in (DOMAIN old) \cup (DOMAIN new) |->
                IF k \in DOMAIN old THEN old[k] ELSE new[k]]]
NoSnap == [tag |-> "unread", map |-> EmptyMap]

(***************************************************************************)
(* std::sync::RwLock: one writer or many readers; poisoned once a writer   *)
(* has panicked holding the guard.  read() and write() block while they    *)
(* cannot be admitted and return Err on a poisoned lock.  last is history: *)
(* the task write() admitted last.                                         *)
(***************************************************************************)
FreeLock ==
    [writer |-> NoTask, readers |-> {}, poisoned |-> FALSE, last |-> NoTask]
\* a read that is admitted while a writer holds the lock
CanReadAlways(l) == TRUE
CanRead(l) == l.writer = NoTask
CanWrite(l) == l.writer = NoTask /\ l.readers = {}

(***************************************************************************)
(* jsonwebtoken.  decode_header parses the header alone; decode builds on  *)
(* DecodingKey::from_rsa_components(n, e), checks the signature, reads the *)
(* payload into the claim shape and validates exp against the clock.       *)
(***************************************************************************)
DecodeHeader(tok) == IF tok.fmt = "jwt" THEN Some(tok) ELSE None
Claims(tok) ==
    [email |-> tok.payload.email, given_name |-> tok.payload.given_name,
     family_name |-> tok.payload.family_name, exp |-> tok.exp]
\* a decode that forgets the signature
JwtDecodeUnsigned(tok, n, e, clock) ==
    IF n = "bad" \/ e = "bad" THEN JWTError("Base64")
    ELSE IF ~tok.payload.complete THEN JWTError("Json")
    ELSE IF tok.exp < clock THEN JWTError("ExpiredSignature")
    ELSE Ok(Claims(tok))
\* a decode that takes a token for expired in the second it expires
JwtDecodeEarly(tok, n, e, clock) ==
    IF n = "bad" \/ e = "bad" THEN JWTError("Base64")
    ELSE IF tok.mat # n THEN JWTError("InvalidSignature")
    ELSE IF ~tok.payload.complete THEN JWTError("Json")
    ELSE IF tok.exp <= clock THEN JWTError("ExpiredSignature")
    ELSE Ok(Claims(tok))
JwtDecode(tok, n, e, clock) ==
    IF n = "bad" \/ e = "bad" THEN JWTError("Base64")
    ELSE IF tok.mat # n THEN JWTError("InvalidSignature")
    ELSE IF ~tok.payload.complete THEN JWTError("Json")
    ELSE IF tok.exp < clock THEN JWTError("ExpiredSignature")
    ELSE Ok(Claims(tok))

(***************************************************************************)
(* TokenRequest (types.rs) and its urlencoded form: serde_urlencoded       *)
(* writes one pair per field and leaves out a field that is None.          *)
(***************************************************************************)
TokenRequestDefault ==
    [username |-> None, password |-> None, refresh_token |-> None,
     client_id |-> "", client_secret |-> "", grant_type |-> "password"]
username_password(u, p) ==
    [TokenRequestDefault EXCEPT !.username = Some(u), !.password = Some(p)]
refresh_token_request(rt) ==
    [TokenRequestDefault EXCEPT !.refresh_token = Some(rt),
                                !.grant_type = "refresh_token"]
client == [TokenRequestDefault EXCEPT !.grant_type = "client_credentials"]
with_client_id(r, id) == [r EXCEPT !.client_id = id]
with_client_secret(r, secret) == [r EXCEPT !.client_secret = secret]
UrlEncode(r) ==
    LET opt == {f \in {"username", "password", "refresh_token"} : r[f] # None}
    IN  [k \in {"client_id", "client_secret", "grant_type"} \cup opt |->
            IF k \in opt THEN Unwrap(r[k]) ELSE r[k]]

(***************************************************************************)
(* Requests.  A url is the pair of the base it was formatted from and the  *)
(* path appended.                                                          *)
(***************************************************************************)
Url == "https://idp"
Realm == "realm"
\* format!("{}/realms/{}/protocol/openid-connect", url, realm)
EndpointOf(url, realm) == <<url, "/realms/", realm, "/protocol/openid-connect">>
\* format!("{}/admin/realms/{}", url, realm)
AdminUrlOf(url, realm) == <<url, "/admin/realms/", realm>>
NoForm == [k \in {} |-> ""]
Request(m, u, f) == [method |-> m, url |-> u, form |-> f]

(***************************************************************************)
(* The identity provider, as the specification describes it (sections 4.1  *)
(* and 6): it authenticates the client and the grant, answers 401 when     *)
(* either is wrong, and otherwise issues an RS256 token for the account,   *)
(* signed with the newest key of the list it publishes.                    *)
(***************************************************************************)
Clients == {"svc", "sc"}
ClientSecrets == [c \in Clients |-> IF c = "svc" THEN "s1" ELSE "s2"]
Passwords == [u \in Users |-> IF u = "alice" THEN "pw-alice" ELSE "pw-bob"]
Accounts == Users \cup Clients
RefreshTokens ==
    [a \in Accounts |->
        CASE a = "alice" -> "rt-alice"
          [] a = "bob" -> "rt-bob"
          [] a = "svc" -> "rt-svc"
          [] OTHER -> "rt-sc"]
ProviderKeyLists ==
    { << CertKey("k1", "m1") >>,
      << CertKey("k1", "m1"), CertKey("k2", "m2") >>,
      << CertKey("k2", "m2") >> }
Has(form, k) == k \in DOMAIN form
ProviderSubject(form) ==
    IF ~(/\ Has(form, "client_id") /\ Has(form, "client_secret")
         /\ Has(form, "grant_type")
         /\ form["client_id"] \in Clients
         /\ form["client_secret"] = ClientSecrets[form["client_id"]])
    THEN None
    ELSE CASE form["grant_type"] = "password" ->
                IF /\ Has(form, "username") /\ Has(form, "password")
                   /\ form["username"] \in Users
                   /\ form["password"] = Passwords[form["username"]]
                THEN Some(form["username"]) ELSE None
           [] form["grant_type"] = "client_credentials" ->
                Some(form["client_id"])
           [] form["grant_type"] = "refresh_token" ->
                IF /\ Has(form, "refresh_token")
                   /\ \E a \in Accounts : RefreshTokens[a] = form["refresh_token"]
                THEN Some(CHOOSE a \in Accounts :
                            RefreshTokens[a] = form["refresh_token"])
                ELSE None
           [] OTHER -> None
ProviderToken(form, keys, clock) ==
    LET subject == ProviderSubject(form)
        key == keys[Len(keys)]
    IN  IF subject = None THEN Resp(UNAUTHORIZED, ErrorBody)
        ELSE Resp(OK, TokenBody(Jwt("RS256", Some(key.kid), key.n, clock,
                                    Profile(Unwrap(subject))),
                                RefreshTokens[Unwrap(subject)], TokenFields))

\* the introspection endpoint (sections 4.1, 6 and 8): it authenticates the client,
\* and reports a token active when the provider signed it with a key it
\* still publishes and it has not expired
ProviderActive(tok, keys, clock) ==
    /\ tok.fmt = "jwt" /\ tok.alg = "RS256" /\ tok.kid # None
    /\ \E i \in DOMAIN keys : keys[i].kid = Unwrap(tok.kid) /\ keys[i].n = tok.mat
    /\ tok.payload.complete
    /\ tok.exp >= clock
ProviderIntrospect(form, keys, clock) ==
    IF ~(/\ Has(form, "client_id") /\ Has(form, "client_secret")
         /\ Has(form, "token")
         /\ form["client_id"] \in Clients
         /\ form["client_secret"] = ClientSecrets[form["client_id"]])
    THEN Resp(UNAUTHORIZED, ErrorBody)
    ELSE Resp(OK, IntrospectBody(ProviderActive(form["token"], keys, clock)))

(***************************************************************************)
(* State.                                                                  *)
(***************************************************************************)
VARIABLES
    client_id, client_secret,   \* Keycloak.client_id, .client_secret
    endpoint, admin_url,        \* Keycloak.endpoint, .admin_url
    cert_keys, cert_lock,       \* Keycloak.cert_keys: value and lock
    token, token_lock,          \* Keycloak.token: value and lock
    jwks, now,                  \* the provider's key list; the clock
    pc, op, arg, ret,           \* per task: position, operation, argument, result
    req, resp, tmp,             \* per task: requests sent, response held, local
    snap, lockres, clk,         \* per task: cache value met at the read, outcome
                                \* of locking, clock read by the validation
    pre, held                   \* per task: the caches as the call found them;
                                \* the token the caller keeps and its account

cfgVars == <<client_id, client_secret, endpoint, admin_url>>
keyVars == <<cert_keys, cert_lock>>
tokVars == <<token, token_lock>>
envVars == <<jwks, now>>
taskVars == <<pc, op, arg, ret, req, resp, tmp, snap, lockres, clk, pre, held>>
vars == <<cfgVars, keyVars, tokVars, envVars, taskVars>>

NoHeld == [has |-> FALSE, tok |-> Empty, account |-> ""]

(***************************************************************************)
(* Keycloak::new: the state after construction.  No task has called        *)
(* anything.                                                               *)
(***************************************************************************)
Secrets == {"s1", "wrong"}
Init ==
    /\ client_id = "svc"
    /\ client_secret \in Secrets
    /\ endpoint = EndpointOf(Url, Realm)
    /\ admin_url = AdminUrlOf(Url, Realm)
    /\ cert_keys = CellNone
    /\ cert_lock = FreeLock
    /\ token = None
    /\ token_lock = FreeLock
    /\ jwks = << CertKey("k1", "m1") >>
    /\ now = 0
    /\ pc = [t \in Tasks |-> "idle"]
    /\ op = [t \in Tasks |-> ""]
    /\ arg = [t \in Tasks |-> None]
    /\ ret = [t \in Tasks |-> NoRet]
    /\ req = [t \in Tasks |-> <<>>]
    /\ resp = [t \in Tasks |-> SendErr]
    /\ tmp = [t \in Tasks |-> None]
    /\ snap = [t \in Tasks |-> NoSnap]
    /\ lockres = [t \in Tasks |-> "none"]
    /\ clk = [t \in Tasks |-> 0]
    /\ pre = [t \in Tasks |-> [cert |-> CellNone, tok |-> None]]
    /\ held = [t \in Tasks |-> NoHeld]

\* a task may call once it is not inside a call
CanCall(t) == pc[t] \in {"idle", "done", "aborted"}
\* entering a call: the argument is bound, the locals are fresh; the call
\* runs on to position at, having returned r if that is "done"
Enter(t, o, a, at, r) ==
    /\ CanCall(t)
    /\ op' = [op EXCEPT ![t] = o]
    /\ arg' = [arg EXCEPT ![t] = a]
    /\ pc' = [pc EXCEPT ![t] = at]
    /\ ret' = [ret EXCEPT ![t] = r]
    /\ resp' = [resp EXCEPT ![t] = SendErr]
    /\ tmp' = [tmp EXCEPT ![t] = None]
    /\ snap' = [snap EXCEPT ![t] = NoSnap]
    /\ lockres' = [lockres EXCEPT ![t] = "none"]
    /\ clk' = [clk EXCEPT ![t] = 0]
    /\ pre' = [pre EXCEPT ![t] = [cert |-> cert_keys, tok |-> token]]
\* returning r
Return(t, r) ==
    /\ pc' = [pc EXCEPT ![t] = "done"]
    /\ ret' = [ret EXCEPT ![t] = r]

(***************************************************************************)
(* Keycloak::new_from_env.  The environment of the process gives each      *)
(* variable no value, a value that is not valid Unicode, or a string;      *)
(* env::var returns Err in the first two cases.                            *)
(***************************************************************************)
NotPresent == [present |-> FALSE, unicode |-> FALSE, val |-> ""]
NotUnicode == [present |-> TRUE, unicode |-> FALSE, val |-> ""]
Value(v) == [present |-> TRUE, unicode |-> TRUE, val |-> v]
EnvNames ==
    {"KEYCLOAK_CLIENT_ID", "KEYCLOAK_CLIENT_SECRET", "KEYCLOAK_REALM",
     "KEYCLOAK_URL"}
EnvValues(name) ==
    CASE name = "KEYCLOAK_CLIENT_ID" -> {"svc"}
      [] name = "KEYCLOAK_CLIENT_SECRET" -> Secrets
      [] name = "KEYCLOAK_REALM" -> {Realm}
      [] OTHER -> {Url, ""}
Environments ==
    [EnvNames -> {NotPresent, NotUnicode} \cup {Value(v) : v \in Secrets \cup {"svc", Realm, Url, ""}}]
\* the environments a process may be started in
Envs ==
    {e \in Environments :
        \A name \in EnvNames :
            e[name].present /\ e[name].unicode => e[name].val \in EnvValues(name)}
env_var(e, name) ==
    IF e[name].present /\ e[name].unicode THEN Some(e[name].val) ELSE None
ConfigNotFound(name) == Err("ConfigNotFound", 0, name, NoBody)
\* the struct lines 68-75 (and 32-39) build
Keycloak(id, secret, realm, url) ==
    [client_id |-> id, client_secret |-> secret,
     endpoint |-> EndpointOf(url, realm), admin_url |-> AdminUrlOf(url, realm),
     cert_keys |-> CellNone, token |-> None]

\* a constructor that falls back on a realm and a url of its own
NewFromEnvDefaults(e) ==
    IF env_var(e, "KEYCLOAK_CLIENT_ID") = None
    THEN ConfigNotFound("KEYCLOAK_CLIENT_ID")
    ELSE IF env_var(e, "KEYCLOAK_CLIENT_SECRET") = None
    THEN ConfigNotFound("KEYCLOAK_CLIENT_SECRET")
    ELSE Ok(Keycloak(Unwrap(env_var(e, "KEYCLOAK_CLIENT_ID")),
                     Unwrap(env_var(e, "KEYCLOAK_CLIENT_SECRET")),
                     IF env_var(e, "KEYCLOAK_REALM") = None THEN Realm
                     ELSE Unwrap(env_var(e, "KEYCLOAK_REALM")),
                     IF env_var(e, "KEYCLOAK_URL") = None THEN Url
                     ELSE Unwrap(env_var(e, "KEYCLOAK_URL"))))
\* lines 42-76
NewFromEnv(e) ==
    IF env_var(e, "KEYCLOAK_CLIENT_ID") = None
    THEN ConfigNotFound("KEYCLOAK_CLIENT_ID")
    ELSE IF env_var(e, "KEYCLOAK_CLIENT_SECRET") = None
    THEN ConfigNotFound("KEYCLOAK_CLIENT_SECRET")
    ELSE IF env_var(e, "KEYCLOAK_REALM") = None
    THEN ConfigNotFound("KEYCLOAK_REALM")
    ELSE IF env_var(e, "KEYCLOAK_URL") = None
    THEN ConfigNotFound("KEYCLOAK_URL")
    ELSE Ok(Keycloak(Unwrap(env_var(e, "KEYCLOAK_CLIENT_ID")),
                     Unwrap(env_var(e, "KEYCLOAK_CLIENT_SECRET")),
                     Unwrap(env_var(e, "KEYCLOAK_REALM")),
                     Unwrap(env_var(e, "KEYCLOAK_URL"))))

\* new_from_env is called in environment e and returns; the instance it
\* returns, if any, is the one the caller goes on with
CallNewFromEnv(t, e) ==
    /\ Enter(t, "new_from_env", e, "done", NewFromEnv(e))
    /\ req' = [req EXCEPT ![t] = <<>>]
    /\ IF NewFromEnv(e).ok
       THEN LET k == Unwrap(NewFromEnv(e).val) IN
            /\ client_id' = k.client_id
            /\ client_secret' = k.client_secret
            /\ endpoint' = k.endpoint
            /\ admin_url' = k.admin_url
            /\ cert_keys' = k.cert_keys
            /\ token' = k.token
            /\ cert_lock' = FreeLock
            /\ token_lock' = FreeLock
       ELSE UNCHANGED <<cfgVars, keyVars, tokVars>>
    /\ UNCHANGED <<envVars, held>>

(***************************************************************************)
(* Keycloak::decode.                                                       *)
(***************************************************************************)
\* a header check that leaves the algorithm to the verification
HeaderCheckNoAlg(tok) ==
    LET header == DecodeHeader(tok) IN
    IF header = None THEN Some(JWTError("InvalidToken"))
    ELSE IF tok.kid = None THEN Some(Other("KID not specified"))
    ELSE None
\* lines 224-230 and 249: what the header alone decides; None when the
\* call goes on to the key lookup
HeaderCheck(tok) ==
    LET header == DecodeHeader(tok) IN
    IF header = None THEN Some(JWTError("InvalidToken"))
    ELSE IF tok.alg # "RS256" THEN Some(Other("Algorithm Not Supported"))
    ELSE IF tok.kid = None THEN Some(Other("KID not specified"))
    ELSE None

\* a lookup that falls back on a key of the set when the kid is unknown
LookupAnyKey(poisoned, cell, kid) ==
    IF poisoned THEN ReadLockFailed
    ELSE IF cell.tag = "none" THEN Other("Cert Key Empty")
    ELSE IF DOMAIN cell.map = {} THEN Other("Key id not found")
    ELSE IF kid \notin DOMAIN cell.map
         THEN Ok(cell.map[CHOOSE k \in DOMAIN cell.map : TRUE])
    ELSE Ok(cell.map[kid])
\* a lookup that takes a poisoned lock for an empty cache
LookupFallback(poisoned, cell, kid) ==
    IF poisoned \/ cell.tag = "none" THEN Other("Cert Key Empty")
    ELSE IF kid \notin DOMAIN cell.map THEN Other("Key id not found")
    ELSE Ok(cell.map[kid])
\* a lookup that reports an empty cache as a failed lock
LookupEmptyAsLock(poisoned, cell, kid) ==
    IF poisoned \/ cell.tag = "none" THEN ReadLockFailed
    ELSE IF kid \notin DOMAIN cell.map THEN Other("Key id not found")
    ELSE Ok(cell.map[kid])
\* lines 232-241: the match on the result of cert_keys.read()
Lookup(poisoned, cell, kid) ==
    IF poisoned THEN ReadLockFailed
    ELSE IF cell.tag = "none" THEN Other("Cert Key Empty")
    ELSE IF kid \notin DOMAIN cell.map THEN Other("Key id not found")
    ELSE Ok(cell.map[kid])

\* decode is called; it runs up to the read of the lock
CallDecode(t, tok) ==
    /\ IF HeaderCheck(tok) # None
       THEN Enter(t, "decode", tok, "done", Unwrap(HeaderCheck(tok)))
       ELSE Enter(t, "decode", tok, "dec_read", NoRet)
    /\ req' = [req EXCEPT ![t] = <<>>]
    /\ UNCHANGED <<cfgVars, keyVars, tokVars, envVars, held>>

\* self.cert_keys.read() is admitted; the key is looked up under the guard
DecodeRead(t) ==
    /\ pc[t] = "dec_read"
    /\ CanRead(cert_lock)
    /\ LET found == Lookup(cert_lock.poisoned, cert_keys, Unwrap(arg[t].kid)) IN
       /\ lockres' = [lockres EXCEPT ![t] =
                        IF cert_lock.poisoned THEN "poisoned" ELSE "ok"]
       /\ snap' = [snap EXCEPT ![t] = cert_keys]
       /\ IF found.ok
          THEN /\ pc' = [pc EXCEPT ![t] = "dec_verify"]
               /\ tmp' = [tmp EXCEPT ![t] = found.val]
               /\ cert_lock' = [cert_lock EXCEPT !.readers = @ \cup {t}]
               /\ UNCHANGED ret
          ELSE /\ Return(t, found)
               /\ UNCHANGED <<tmp, cert_lock>>
    /\ UNCHANGED <<cfgVars, cert_keys, tokVars, envVars, op, arg, req, resp,
                   clk, pre, held>>

\* lines 242-247: jsonwebtoken::decode under the read guard, which is
\* dropped on return
DecodeVerify(t) ==
    /\ pc[t] = "dec_verify"
    /\ LET key == Unwrap(tmp[t]) IN
       Return(t, JwtDecode(arg[t], key.n, key.e, now))
    /\ clk' = [clk EXCEPT ![t] = now]
    /\ cert_lock' = [cert_lock EXCEPT !.readers = @ \ {t}]
    /\ UNCHANGED <<cfgVars, cert_keys, tokVars, envVars, op, arg, req, resp,
                   tmp, snap, lockres, pre, held>>

(***************************************************************************)
(* Keycloak::load_keys.                                                    *)
(***************************************************************************)
\* the replies the environment gives to GET {endpoint}/certs when the key
\* lists it may publish are lists
KeysReplies(lists) ==
    {SendErr, Resp(OK, TextBody), Resp(OK, ReadErr)}
    \cup {Resp(OK, KeysBody(ks)) : ks \in lists}
    \cup {Resp(s, b) : s \in Statuses \ {OK}, b \in {ErrorBody, ReadErr}}

\* lines 99-102 and 117-120: what the response decides; Ok(keys) when the
\* call goes on to write the cache
KeysResult(r) ==
    IF ~r.sent THEN RequestError
    ELSE IF r.status = OK
         THEN IF JsonKeys(r.body) = None THEN RequestError
              ELSE Ok(Unwrap(JsonKeys(r.body)))
    ELSE IF Text(r.body) = None THEN RequestError
    ELSE ResponseError(r.status, Unwrap(Text(r.body)))

\* a store that inserts the fetched keys into the map already there
Merged(old, keys) ==
    IF old.tag = "none" THEN CellSome(Collect(keys))
    ELSE CellSome([k \in (DOMAIN old.map) \cup (DOMAIN Collect(keys)) |->
                     IF k \in DOMAIN Collect(keys) THEN Collect(keys)[k]
                     ELSE old.map[k]])
\* a store that takes the value out of a populated cache
Taken(old, keys) ==
    IF old.tag = "some" THEN CellNone ELSE CellSome(Collect(keys))
\* lines 105-111: the value the assignment leaves in the cache
Replaced(old, keys) == CellSome(Collect(keys))

\* a call that takes the write guard before it sends its request
CallLoadKeysLocked(t) ==
    /\ Enter(t, "load_keys", None, "lk_send", NoRet)
    /\ CanWrite(cert_lock)
    /\ cert_lock' = [cert_lock EXCEPT !.writer = t, !.last = t]
    /\ req' = [req EXCEPT ![t] =
                 << Request("GET", <<endpoint, "/certs">>, NoForm) >>]
    /\ UNCHANGED <<cfgVars, cert_keys, tokVars, envVars, held>>
\* load_keys is called and sends its request
CallLoadKeys(t) ==
    /\ Enter(t, "load_keys", None, "lk_send", NoRet)
    /\ req' = [req EXCEPT ![t] =
                 << Request("GET", <<endpoint, "/certs">>, NoForm) >>]
    /\ UNCHANGED <<cfgVars, keyVars, tokVars, envVars, held>>

\* the response (or the failure to get one) arrives and is read
LoadKeysResponse(t, r) ==
    /\ pc[t] = "lk_send"
    /\ resp' = [resp EXCEPT ![t] = r]
    /\ IF KeysResult(r).ok
       THEN /\ pc' = [pc EXCEPT ![t] = "lk_write"]
            /\ tmp' = [tmp EXCEPT ![t] = KeysResult(r).val]
            /\ UNCHANGED ret
       ELSE /\ Return(t, KeysResult(r))
            /\ UNCHANGED tmp
    /\ UNCHANGED <<cfgVars, keyVars, tokVars, envVars, op, arg, req, snap,
                   lockres, clk, pre, held>>

\* line 103: self.cert_keys.write() is admitted
LoadKeysWrite(t) ==
    /\ pc[t] = "lk_write"
    /\ CanWrite(cert_lock)
    /\ lockres' = [lockres EXCEPT ![t] =
                     IF cert_lock.poisoned THEN "poisoned" ELSE "ok"]
    /\ IF cert_lock.poisoned
       THEN /\ Return(t, WriteLockFailed)
            /\ UNCHANGED cert_lock
       ELSE /\ pc' = [pc EXCEPT ![t] = "lk_store"]
            /\ cert_lock' = [cert_lock EXCEPT !.writer = t, !.last = t]
            /\ UNCHANGED ret
    /\ UNCHANGED <<cfgVars, cert_keys, tokVars, envVars, op, arg, req, resp,
                   tmp, snap, clk, pre, held>>

\* lines 105-111: the assignment begins; the memory is neither the old
\* value nor the new one until it has ended
LoadKeysStore(t) ==
    /\ pc[t] = "lk_store"
    /\ cert_keys' = CellTorn(cert_keys.map, Collect(Unwrap(tmp[t])))
    /\ snap' = [snap EXCEPT ![t] = cert_keys]
    /\ pc' = [pc EXCEPT ![t] = "lk_unlock"]
    /\ UNCHANGED <<cfgVars, cert_lock, tokVars, envVars, op, arg, ret, req,
                   resp, tmp, lockres, clk, pre, held>>

\* lines 111-113: the assignment ends, the guard is dropped, Ok(())
LoadKeysUnlock(t) ==
    /\ pc[t] = "lk_unlock"
    /\ cert_keys' = Replaced(snap[t], Unwrap(tmp[t]))
    /\ cert_lock' = [cert_lock EXCEPT !.writer = NoTask]
    /\ Return(t, Ok(Unit))
    /\ UNCHANGED <<cfgVars, tokVars, envVars, op, arg, req, resp, tmp, snap,
                   lockres, clk, pre, held>>

(***************************************************************************)
(* Keycloak::get_oauth2_token and Keycloak::get_sc_oauth2_token.           *)
(***************************************************************************)
\* the requests callers make: each grant with right and wrong credentials,
\* and one that brings a client id and secret of its own
TokenRequests ==
    { username_password("alice", "pw-alice"),
      username_password("bob", "pw-bob"),
      username_password("alice", "pw-bob"),
      refresh_token_request("rt-alice"),
      refresh_token_request("rt-forged"),
      client,
      with_client_secret(with_client_id(username_password("bob", "pw-bob"),
                                        "sc"), "s2") }
\* the client credentials callers hand to get_sc_oauth2_token
ScCredentials == { <<"sc", "s2">>, <<"sc", "wrong">> }

\* the bodies a reply may carry that the provider did not write
FaultBodies ==
    { TokenBody(Empty, "", TokenFields),
      TokenBody(Garbage, "rt-alice", TokenFields \ {"refresh_token"}),
      ErrorBody, ReadErr }
\* the replies the environment gives to POST {endpoint}/token with form
TokenReplies(form) ==
    {ProviderToken(form, jwks, now), SendErr}
    \cup {Resp(s, b) : s \in Statuses, b \in FaultBodies}

\* a form built from the caller's request as it came
FormAsGiven(request, id, secret) == UrlEncode(request)
\* lines 161-165: the form get_oauth2_token sends for request
Form(request, id, secret) ==
    UrlEncode(with_client_secret(with_client_id(request, id), secret))
\* lines 136-139: the form get_sc_oauth2_token sends
ScForm(id, secret) ==
    UrlEncode(with_client_secret(with_client_id(client, id), secret))

\* a match that has no arm for 401
TokenResultNo401(r) ==
    IF ~r.sent THEN RequestError
    ELSE IF r.status = OK
         THEN IF JsonTokenResponse(r.body) = None THEN RequestError
              ELSE Ok(Unwrap(JsonTokenResponse(r.body)))
    ELSE IF Text(r.body) = None THEN RequestError
    ELSE ResponseError(r.status, Unwrap(Text(r.body)))
\* lines 167-180: what get_oauth2_token makes of the response
TokenResult(r) ==
    IF ~r.sent THEN RequestError
    ELSE IF r.status = OK
         THEN IF JsonTokenResponse(r.body) = None THEN RequestError
              ELSE Ok(Unwrap(JsonTokenResponse(r.body)))
    ELSE IF r.status = UNAUTHORIZED THEN UnAuthorized
    ELSE IF Text(r.body) = None THEN RequestError
    ELSE ResponseError(r.status, Unwrap(Text(r.body)))
\* lines 141-154: what get_sc_oauth2_token makes of the response
ScTokenResult(r) ==
    IF ~r.sent THEN RequestError
    ELSE IF r.status = OK
         THEN IF JsonTokenResponse(r.body) = None THEN RequestError
              ELSE Ok(Unwrap(JsonTokenResponse(r.body)))
    ELSE IF r.status = UNAUTHORIZED THEN UnAuthorized
    ELSE IF Text(r.body) = None THEN RequestError
    ELSE ResponseError(r.status, Unwrap(Text(r.body)))

\* the account a form asks a token for
AccountOf(form) ==
    IF Has(form, "username") THEN form["username"]
    ELSE IF Has(form, "refresh_token")
         THEN IF \E a \in Accounts : RefreshTokens[a] = form["refresh_token"]
              THEN CHOOSE a \in Accounts : RefreshTokens[a] = form["refresh_token"]
              ELSE ""
    ELSE form["client_id"]
\* what the caller keeps of a result: the access token and whose it is
Kept(t, form, r) ==
    IF r.ok
    THEN [held EXCEPT ![t] = [has |-> TRUE, tok |-> Unwrap(r.val).access_token,
                              account |-> AccountOf(form)]]
    ELSE held

PostToken(form) == Request("POST", <<endpoint, "/token">>, form)
\* the form of the request a task has in flight
SentForm(t) == IF req[t] = <<>> THEN NoForm ELSE req[t][Len(req[t])].form

\* get_oauth2_token is called and sends its request
CallGetOauth2Token(t, request) ==
    /\ Enter(t, "get_oauth2_token", request, "tok_send", NoRet)
    /\ req' = [req EXCEPT ![t] =
                 << PostToken(Form(request, client_id, client_secret)) >>]
    /\ UNCHANGED <<cfgVars, keyVars, tokVars, envVars, held>>

\* the response arrives and is read
GetOauth2TokenResponse(t, r) ==
    /\ pc[t] = "tok_send"
    /\ resp' = [resp EXCEPT ![t] = r]
    /\ Return(t, TokenResult(r))
    /\ held' = Kept(t, SentForm(t), TokenResult(r))
    /\ UNCHANGED <<cfgVars, keyVars, tokVars, envVars, op, arg, req, tmp, snap,
                   lockres, clk, pre>>

\* get_sc_oauth2_token is called and sends its request
CallGetScOauth2Token(t, id, secret) ==
    /\ Enter(t, "get_sc_oauth2_token", <<id, secret>>, "sc_send", NoRet)
    /\ req' = [req EXCEPT ![t] = << PostToken(ScForm(id, secret)) >>]
    /\ UNCHANGED <<cfgVars, keyVars, tokVars, envVars, held>>

\* the response arrives and is read
GetScOauth2TokenResponse(t, r) ==
    /\ pc[t] = "sc_send"
    /\ resp' = [resp EXCEPT ![t] = r]
    /\ Return(t, ScTokenResult(r))
    /\ held' = Kept(t, SentForm(t), ScTokenResult(r))
    /\ UNCHANGED <<cfgVars, keyVars, tokVars, envVars, op, arg, req, tmp, snap,
                   lockres, clk, pre>>

(***************************************************************************)
(* Keycloak::load_client_token.                                            *)
(***************************************************************************)
\* lines 86-87: the call sends the request of get_oauth2_token(client())
CallLoadClientToken(t) ==
    /\ Enter(t, "load_client_token", None, "lct_send", NoRet)
    /\ req' = [req EXCEPT ![t] =
                 << PostToken(Form(client, client_id, client_secret)) >>]
    /\ UNCHANGED <<cfgVars, keyVars, tokVars, envVars, held>>

\* line 87: get_oauth2_token returns; `?` returns its failure
LoadClientTokenResponse(t, r) ==
    /\ pc[t] = "lct_send"
    /\ resp' = [resp EXCEPT ![t] = r]
    /\ IF TokenResult(r).ok
       THEN /\ pc' = [pc EXCEPT ![t] = "lct_write"]
            /\ tmp' = [tmp EXCEPT ![t] = TokenResult(r).val]
            /\ UNCHANGED ret
       ELSE /\ Return(t, TokenResult(r))
            /\ UNCHANGED tmp
    /\ UNCHANGED <<cfgVars, keyVars, tokVars, envVars, op, arg, req, snap,
                   lockres, clk, pre, held>>

\* lines 89-92: self.token.write() is admitted
LoadClientTokenWrite(t) ==
    /\ pc[t] = "lct_write"
    /\ CanWrite(token_lock)
    /\ lockres' = [lockres EXCEPT ![t] =
                     IF token_lock.poisoned THEN "poisoned" ELSE "ok"]
    /\ IF token_lock.poisoned
       THEN /\ Return(t, WriteLockFailed)
            /\ UNCHANGED token_lock
       ELSE /\ pc' = [pc EXCEPT ![t] = "lct_store"]
            /\ token_lock' = [token_lock EXCEPT !.writer = t, !.last = t]
            /\ UNCHANGED ret
    /\ UNCHANGED <<cfgVars, keyVars, token, envVars, op, arg, req, resp, tmp,
                   snap, clk, pre, held>>

\* lines 91-94: the token is stored, the guard is dropped, Ok(())
LoadClientTokenStore(t) ==
    /\ pc[t] = "lct_store"
    /\ token' = tmp[t]
    /\ token_lock' = [token_lock EXCEPT !.writer = NoTask]
    /\ Return(t, Ok(Unit))
    /\ UNCHANGED <<cfgVars, keyVars, envVars, op, arg, req, resp, tmp, snap,
                   lockres, clk, pre, held>>

(***************************************************************************)
(* Keycloak::verify_token.                                                 *)
(***************************************************************************)
\* a request that leaves the client's secret out
VerifyFormAnonymous(tok, id, secret) ==
    [k \in {"token", "client_id"} |-> IF k = "token" THEN tok ELSE id]
\* lines 184-188: the urlencoded TokenVerifyRequest
VerifyForm(tok, id, secret) ==
    [k \in {"token", "client_id", "client_secret"} |->
        CASE k = "token" -> tok
          [] k = "client_id" -> id
          [] OTHER -> secret]
PostIntrospect(form) == Request("POST", <<endpoint, "/token/introspect">>, form)
\* the replies the environment gives to POST {endpoint}/token/introspect
IntrospectReplies(form) ==
    {ProviderIntrospect(form, jwks, now), SendErr}
    \cup {Resp(OK, b) : b \in {ErrorBody, ReadErr}}
    \cup {Resp(s, b) : s \in Statuses \ {OK}, b \in {IntrospectBody(TRUE), ErrorBody, ReadErr}}

\* a match that has the 401 arm of the token exchange
IntrospectResultWith401(r) ==
    IF ~r.sent THEN RequestError
    ELSE IF r.status = OK
         THEN IF JsonTokenVerifyResponse(r.body) = None THEN RequestError
              ELSE Ok(Unwrap(JsonTokenVerifyResponse(r.body)))
    ELSE IF r.status = UNAUTHORIZED THEN UnAuthorized
    ELSE IF Text(r.body) = None THEN RequestError
    ELSE ResponseError(r.status, Unwrap(Text(r.body)))
\* lines 190-202: what verify_token makes of the response
IntrospectResult(r) ==
    IF ~r.sent THEN RequestError
    ELSE IF r.status = OK
         THEN IF JsonTokenVerifyResponse(r.body) = None THEN RequestError
              ELSE Ok(Unwrap(JsonTokenVerifyResponse(r.body)))
    ELSE IF Text(r.body) = None THEN RequestError
    ELSE ResponseError(r.status, Unwrap(Text(r.body)))

\* verify_token is called and sends its request
CallVerifyToken(t, tok) ==
    /\ Enter(t, "verify_token", tok, "vt_send", NoRet)
    /\ req' = [req EXCEPT ![t] =
                 << PostIntrospect(VerifyForm(tok, client_id, client_secret)) >>]
    /\ UNCHANGED <<cfgVars, keyVars, tokVars, envVars, held>>

\* the response arrives and is read
VerifyTokenResponse(t, r) ==
    /\ pc[t] = "vt_send"
    /\ resp' = [resp EXCEPT ![t] = r]
    /\ Return(t, IntrospectResult(r))
    /\ clk' = [clk EXCEPT ![t] = now]
    /\ UNCHANGED <<cfgVars, keyVars, tokVars, envVars, op, arg, req, tmp, snap,
                   lockres, pre, held>>

(***************************************************************************)
(* Keycloak::register_user.                                                *)
(***************************************************************************)
\* CreateUserRequest::new (types.rs)
CreateUserRequest(firstname, lastname, username, email, password) ==
    [firstName |-> firstname, lastName |-> lastname, username |-> username,
     email |-> email, enabled |-> TRUE, attributes |-> EmptyMap,
     credentials |-> << [type |-> "password", value |-> password,
                         temporary |-> FALSE] >>]
NewUsers ==
    { CreateUserRequest("First", "Second", "username", "ini@email.com", "pw"),
      CreateUserRequest("Alice", "A", "alice", "alice@example.org", "pw-alice") }

\* a bearer credential taken from the cached token when there is one
BearerAuthCached(fresh, cached) ==
    IF cached # None THEN Unwrap(cached).access_token ELSE fresh.access_token
\* line 210: bearer_auth(token.access_token), token being what line 206
\* obtained; the cached token has no part in it
BearerAuth(fresh, cached) == fresh.access_token
\* lines 207-212: POST {admin_url}/users with the bearer credential and
\* the user as JSON
PostUsers(bearer, user) ==
    Request("POST", <<admin_url, "/users">>,
            [k \in {"authorization", "json"} |->
                IF k = "authorization" THEN bearer ELSE user])
\* the replies the environment gives to POST {admin_url}/users
AdminReplies ==
    {SendErr} \cup {Resp(s, b) : s \in Statuses, b \in {TextBody, ErrorBody, ReadErr}}

\* lines 208-220: what register_user makes of the response
RegisterResult(r) ==
    IF ~r.sent THEN RequestError
    ELSE IF r.status = CREATED THEN Ok(Unit)
    ELSE IF Text(r.body) = None THEN RequestError
    ELSE ResponseError(r.status, Unwrap(Text(r.body)))

\* line 206: the call sends the request of get_oauth2_token(client())
CallRegisterUser(t, user) ==
    /\ Enter(t, "register_user", user, "ru_token", NoRet)
    /\ req' = [req EXCEPT ![t] =
                 << PostToken(Form(client, client_id, client_secret)) >>]
    /\ UNCHANGED <<cfgVars, keyVars, tokVars, envVars, held>>

\* lines 206-213: get_oauth2_token returns; `?` returns its failure,
\* otherwise the user is posted with the token obtained
RegisterUserToken(t, r) ==
    /\ pc[t] = "ru_token"
    /\ resp' = [resp EXCEPT ![t] = r]
    /\ IF TokenResult(r).ok
       THEN /\ pc' = [pc EXCEPT ![t] = "ru_send"]
            /\ tmp' = [tmp EXCEPT ![t] = TokenResult(r).val]
            /\ req' = [req EXCEPT ![t] =
                         Append(@, PostUsers(BearerAuth(Unwrap(TokenResult(r).val),
                                                        token), arg[t]))]
            /\ UNCHANGED ret
       ELSE /\ Return(t, TokenResult(r))
            /\ UNCHANGED <<tmp, req>>
    /\ UNCHANGED <<cfgVars, keyVars, tokVars, envVars, op, arg, snap, lockres,
                   clk, pre, held>>

\* lines 213-220: the response of the administrative endpoint is read
RegisterUserResponse(t, r) ==
    /\ pc[t] = "ru_send"
    /\ resp' = [resp EXCEPT ![t] = r]
    /\ Return(t, RegisterResult(r))
    /\ UNCHANGED <<cfgVars, keyVars, tokVars, envVars, op, arg, req, tmp, snap,
                   lockres, clk, pre, held>>

(***************************************************************************)
(* The environment.                                                        *)
(***************************************************************************)
\* the provider replaces the key list it publishes
Rotate(ks) ==
    /\ ks # jwks
    /\ jwks' = ks
    /\ UNCHANGED <<cfgVars, keyVars, tokVars, now, taskVars>>

\* time passes
Tick ==
    /\ now < MaxTime
    /\ now' = now + 1
    /\ UNCHANGED <<cfgVars, keyVars, tokVars, jwks, taskVars>>

\* a position at which a call of load_keys or load_client_token is
\* suspended whatever the lock does
SuspendedOrStoring(p) == p \in {"lk_send", "lct_send", "lk_unlock", "lct_store"}
\* the positions at which load_keys and load_client_token are suspended in
\* an .await: the request and the read of the body (lines 99, 102, 119
\* and 87); there is none between write() and the end of the guard
Suspended(p) == p \in {"lk_send", "lct_send"}
\* the caller's deadline passes and the future of the call is dropped where
\* it is suspended: the call goes no further and returns nothing
Abort(t) ==
    /\ Suspended(pc[t])
    /\ pc' = [pc EXCEPT ![t] = "aborted"]
    /\ UNCHANGED <<cfgVars, keyVars, tokVars, envVars, op, arg, ret, req, resp,
                   tmp, snap, lockres, clk, pre, held>>

\* a thread holding the write guard of cert_keys panics: the guard is
\* dropped during unwinding and the lock is poisoned, its value untouched
CertWriterPanics ==
    /\ CanWrite(cert_lock)
    /\ ~cert_lock.poisoned
    /\ cert_lock' = [cert_lock EXCEPT !.poisoned = TRUE]
    /\ UNCHANGED <<cfgVars, cert_keys, tokVars, envVars, taskVars>>

\* the same for the write guard of token
TokenWriterPanics ==
    /\ CanWrite(token_lock)
    /\ ~token_lock.poisoned
    /\ token_lock' = [token_lock EXCEPT !.poisoned = TRUE]
    /\ UNCHANGED <<cfgVars, keyVars, token, envVars, taskVars>>

(***************************************************************************)
(* The key set cache under concurrent use: r1 verifies tokens while w1     *)
(* refreshes, time passes and the lock may be poisoned.                    *)
(***************************************************************************)
InitKeys == Init /\ client_secret = "s1"
NextKeys ==
    \/ \E tok \in ForgedTokens : CallDecode("r1", tok)
    \/ DecodeRead("r1")
    \/ DecodeVerify("r1")
    \/ CallLoadKeys("w1")
    \/ \E r \in KeysReplies(KeyLists) : LoadKeysResponse("w1", r)
    \/ LoadKeysWrite("w1")
    \/ LoadKeysStore("w1")
    \/ LoadKeysUnlock("w1")
    \/ Tick
    \/ CertWriterPanics
SpecKeys == InitKeys /\ [][NextKeys]_vars

(***************************************************************************)
(* The token client: c1 exchanges tokens with the provider over a network  *)
(* that may fail or answer in the provider's place.                        *)
(***************************************************************************)
NextToken ==
    \/ \E request \in TokenRequests : CallGetOauth2Token("c1", request)
    \/ \E r \in TokenReplies(SentForm("c1")) : GetOauth2TokenResponse("c1", r)
    \/ \E c \in ScCredentials : CallGetScOauth2Token("c1", c[1], c[2])
    \/ \E r \in TokenReplies(SentForm("c1")) : GetScOauth2TokenResponse("c1", r)
SpecToken == Init /\ [][NextToken]_vars

(***************************************************************************)
(* The locks: r1 verifies while w1 refreshes the keys or the client token  *)
(* and either lock may be poisoned.                                        *)
(***************************************************************************)
LockProbeTokens ==
    { Jwt("HS256", Some("k1"), "m1", MaxTime, Profile("alice")),
      Jwt("RS256", None, "m1", MaxTime, Profile("alice")),
      Jwt("RS256", Some("k1"), "m1", MaxTime, Profile("alice")),
      Jwt("RS256", Some("k2"), "m2", MaxTime, Profile("alice")) }
NextLocks ==
    \/ \E tok \in LockProbeTokens : CallDecode("r1", tok)
    \/ DecodeRead("r1")
    \/ DecodeVerify("r1")
    \/ CallLoadKeys("w1")
    \/ \E r \in KeysReplies({jwks}) : LoadKeysResponse("w1", r)
    \/ LoadKeysWrite("w1")
    \/ LoadKeysStore("w1")
    \/ LoadKeysUnlock("w1")
    \/ CallLoadClientToken("w1")
    \/ \E r \in TokenReplies(SentForm("w1")) : LoadClientTokenResponse("w1", r)
    \/ LoadClientTokenWrite("w1")
    \/ LoadClientTokenStore("w1")
    \/ CertWriterPanics
    \/ TokenWriterPanics
SpecLocks == Init /\ [][NextLocks]_vars

(***************************************************************************)
(* The round trip: c1 refreshes the keys, obtains tokens and has the one   *)
(* it holds verified, while the provider rotates its keys, time passes     *)
(* and the lock may be poisoned.                                           *)
(***************************************************************************)
RoundRequests ==
    { username_password("alice", "pw-alice"), username_password("bob", "pw-bob"),
      refresh_token_request("rt-alice"), client }
NextRound ==
    \/ \E request \in RoundRequests : CallGetOauth2Token("c1", request)
    \/ \E r \in {ProviderToken(SentForm("c1"), jwks, now), SendErr} :
          GetOauth2TokenResponse("c1", r)
    \/ held["c1"].has /\ CallDecode("c1", held["c1"].tok)
    \/ DecodeRead("c1")
    \/ DecodeVerify("c1")
    \/ CallLoadKeys("c1")
    \/ \E r \in {Resp(OK, KeysBody(jwks)), SendErr} : LoadKeysResponse("c1", r)
    \/ LoadKeysWrite("c1")
    \/ LoadKeysStore("c1")
    \/ LoadKeysUnlock("c1")
    \/ \E ks \in ProviderKeyLists : Rotate(ks)
    \/ Tick
    \/ CertWriterPanics
SpecRound == InitKeys /\ [][NextRound]_vars

(***************************************************************************)
(* Introspection: c1 obtains tokens and has the one it holds, an expired   *)
(* one or a string that is no token introspected, while time passes and    *)
(* the network may fail or answer in the provider's place.                 *)
(***************************************************************************)
ExpiredToken == Jwt("RS256", Some("k1"), "m1", 0, Profile("alice"))
IntrospectRequests == { username_password("alice", "pw-alice"), client }
NextIntrospect ==
    \/ \E request \in IntrospectRequests : CallGetOauth2Token("c1", request)
    \/ \E r \in {ProviderToken(SentForm("c1"), jwks, now), SendErr} :
          GetOauth2TokenResponse("c1", r)
    \/ held["c1"].has /\ CallVerifyToken("c1", held["c1"].tok)
    \/ \E tok \in {Garbage, ExpiredToken} : CallVerifyToken("c1", tok)
    \/ \E r \in IntrospectReplies(SentForm("c1")) : VerifyTokenResponse("c1", r)
    \/ Tick
SpecIntrospect == Init /\ [][NextIntrospect]_vars

(***************************************************************************)
(* Provisioning: c1 registers users while w1 keeps the cached client token *)
(* fresh, time passes and the lock of the cached token may be poisoned.    *)
(***************************************************************************)
NextRegister ==
    \/ \E user \in NewUsers : CallRegisterUser("c1", user)
    \/ \E r \in TokenReplies(SentForm("c1")) : RegisterUserToken("c1", r)
    \/ \E r \in AdminReplies : RegisterUserResponse("c1", r)
    \/ CallLoadClientToken("w1")
    \/ \E r \in {ProviderToken(SentForm("w1"), jwks, now), SendErr} :
          LoadClientTokenResponse("w1", r)
    \/ LoadClientTokenWrite("w1")
    \/ LoadClientTokenStore("w1")
    \/ Tick
    \/ TokenWriterPanics
SpecRegister == InitKeys /\ [][NextRegister]_vars

(***************************************************************************)
(* Construction: c1 constructs instances from the environments a process   *)
(* may be started in.                                                      *)
(***************************************************************************)
NextEnv == \E e \in Envs : CallNewFromEnv("c1", e)
SpecEnv == Init /\ [][NextEnv]_vars

(***************************************************************************)
(* Concurrent refreshes: w1 and c1 both refresh the key set, each fetching *)
(* what the provider publishes when its request arrives.                   *)
(***************************************************************************)
Refreshers == {"w1", "c1"}
NextRefreshers ==
    \/ \E t \in Refreshers : CallLoadKeys(t)
    \/ \E t \in Refreshers :
          \E r \in {SendErr} \cup {Resp(OK, KeysBody(ks)) : ks \in KeyLists} :
              LoadKeysResponse(t, r)
    \/ \E t \in Refreshers : LoadKeysWrite(t)
    \/ \E t \in Refreshers : LoadKeysStore(t)
    \/ \E t \in Refreshers : LoadKeysUnlock(t)
SpecRefreshers == InitKeys /\ [][NextRefreshers]_vars

(***************************************************************************)
(* Deadlines: w1 refreshes the keys and the client token under a deadline  *)
(* that may pass at any time, while c1 refreshes them too and time passes. *)
(***************************************************************************)
NextAbort ==
    \/ \E t \in Refreshers : CallLoadKeys(t)
    \/ \E t \in Refreshers :
          \E r \in {Resp(OK, KeysBody(ks)) : ks \in KeyLists \ {<<>>}} :
              LoadKeysResponse(t, r)
    \/ \E t \in Refreshers : LoadKeysWrite(t)
    \/ \E t \in Refreshers : LoadKeysStore(t)
    \/ \E t \in Refreshers : LoadKeysUnlock(t)
    \/ \E t \in Refreshers : CallLoadClientToken(t)
    \/ \E t \in Refreshers :
          LoadClientTokenResponse(t, ProviderToken(SentForm(t), jwks, now))
    \/ \E t \in Refreshers : LoadClientTokenWrite(t)
    \/ \E t \in Refreshers : LoadClientTokenStore(t)
    \/ Abort("w1")
    \/ Tick
SpecAbort == InitKeys /\ [][NextAbort]_vars

(***************************************************************************)
(* Properties.                                                             *)
(***************************************************************************)
Done(t, o) == pc[t] = "done" /\ op[t] = o
ExchangeDone(t) ==
    pc[t] = "done" /\ op[t] \in {"get_oauth2_token", "get_sc_oauth2_token"}
\* the body is a JSON object that has every field of TokenResponse
Deserializes(b) == b.fmt = "token" /\ TokenFields \subseteq b.fields
\* r is Ok of the TokenResponse written in b
IsTokenOf(r, b) ==
    /\ r.ok
    /\ Unwrap(r.val).access_token = b.access_token
    /\ Unwrap(r.val).refresh_token = b.refresh_token
Readable(b) == b.fmt # "readerr"

\* C1, as claimed: a token exchange yields the deserialized TokenResponse
\* on HTTP 200, Unauthorized on 401, ProviderRejected with the status and
\* the body on every other non-2xx status, TransportError on a transport
\* failure, and nothing else.
C1_AsClaimed ==
    \A t \in Tasks : ExchangeDone(t) =>
        /\ (resp[t].sent /\ resp[t].status = OK =>
               IsTokenOf(ret[t], resp[t].body))
        /\ (resp[t].sent /\ resp[t].status = UNAUTHORIZED =>
               ret[t] = UnAuthorized)
        /\ (resp[t].sent /\ resp[t].status \notin 200..299
                /\ resp[t].status # UNAUTHORIZED =>
               ret[t] = ResponseError(resp[t].status, resp[t].body))
        /\ (~resp[t].sent => ret[t] = RequestError)

\* C1, amended: HTTP 200 yields the deserialized TokenResponse when the
\* body deserializes as one and RequestError (TransportError) when it does
\* not; 401 yields Unauthorized; every other status yields ResponseError
\* (ProviderRejected) with the status and the body when the body can be
\* read and RequestError when it cannot; a failure to send yields
\* RequestError.
C1_TokenExchangeMapping ==
    \A t \in Tasks : ExchangeDone(t) =>
        /\ (resp[t].sent /\ resp[t].status = OK /\ Deserializes(resp[t].body) =>
               IsTokenOf(ret[t], resp[t].body))
        /\ (resp[t].sent /\ resp[t].status = OK /\ ~Deserializes(resp[t].body) =>
               ret[t] = RequestError)
        /\ (resp[t].sent /\ resp[t].status = UNAUTHORIZED =>
               ret[t] = UnAuthorized)
        /\ (resp[t].sent /\ resp[t].status \notin {OK, UNAUTHORIZED}
                /\ Readable(resp[t].body) =>
               ret[t] = ResponseError(resp[t].status, resp[t].body))
        /\ (resp[t].sent /\ resp[t].status \notin {OK, UNAUTHORIZED}
                /\ ~Readable(resp[t].body) =>
               ret[t] = RequestError)
        /\ (~resp[t].sent => ret[t] = RequestError)
\* an exchange has met a 200 whose body does not deserialize
C1_Witness ==
    \E t \in Tasks :
        /\ ExchangeDone(t) /\ op[t] = "get_sc_oauth2_token"
        /\ resp[t].sent /\ resp[t].status = OK /\ ~Deserializes(resp[t].body)

\* the credentials a call of get_oauth2_token(request) presents are right:
\* the instance's client id and secret, and what the grant asks for
InstanceCredentialsRight ==
    client_id \in Clients /\ client_secret = ClientSecrets[client_id]
GrantCredentialsRight(request) ==
    CASE request.grant_type = "password" ->
            /\ request.username # None /\ request.password # None
            /\ Unwrap(request.username) \in Users
            /\ Unwrap(request.password) = Passwords[Unwrap(request.username)]
      [] request.grant_type = "refresh_token" ->
            /\ request.refresh_token # None
            /\ \E a \in Accounts : RefreshTokens[a] = Unwrap(request.refresh_token)
      [] OTHER -> request.grant_type = "client_credentials"
CorrectCredentials(request) ==
    InstanceCredentialsRight /\ GrantCredentialsRight(request)
\* the response the task holds is the provider's answer to what it sent
Delivered(t) == resp[t] = ProviderToken(SentForm(t), jwks, now)
NonEmptyToken(r) == r.ok /\ Unwrap(r.val).access_token.fmt # "empty"

\* C2, as claimed: for every grant type and every request with correct
\* credentials, get_oauth2_token returns a TokenResponse whose access token
\* is not empty.
C2_AsClaimed ==
    \A t \in Tasks :
        Done(t, "get_oauth2_token") /\ CorrectCredentials(arg[t]) =>
            NonEmptyToken(ret[t])

\* C2, amended: for every grant type and every request with correct
\* credentials, get_oauth2_token returns a TokenResponse whose access token
\* is not empty whenever the provider's answer to the request reaches the
\* client; when the request cannot be sent it fails with RequestError
\* (TransportError).
C2_CorrectCredentialsGetToken ==
    \A t \in Tasks :
        Done(t, "get_oauth2_token") /\ CorrectCredentials(arg[t]) =>
            /\ (Delivered(t) => NonEmptyToken(ret[t]))
            /\ (~resp[t].sent => ret[t] = RequestError)
\* a refresh-token exchange with right credentials has returned its token
C2_Witness ==
    \E t \in Tasks :
        /\ Done(t, "get_oauth2_token") /\ CorrectCredentials(arg[t])
        /\ Delivered(t) /\ arg[t].grant_type = "refresh_token"
        /\ NonEmptyToken(ret[t])

\* C3, as claimed: for every request with incorrect credentials,
\* get_oauth2_token fails with Unauthorized, never with RequestError or
\* any other failure.
C3_AsClaimed ==
    \A t \in Tasks :
        Done(t, "get_oauth2_token") /\ ~CorrectCredentials(arg[t]) =>
            ret[t] = UnAuthorized

\* C3, amended: for every request with incorrect credentials,
\* get_oauth2_token fails with Unauthorized whenever the provider's answer
\* to the request reaches the client; when the request cannot be sent it
\* fails with RequestError (TransportError).
C3_IncorrectCredentialsUnauthorized ==
    \A t \in Tasks :
        Done(t, "get_oauth2_token") /\ ~CorrectCredentials(arg[t]) =>
            /\ (Delivered(t) => ret[t] = UnAuthorized)
            /\ (~resp[t].sent => ret[t] = RequestError)
\* a password exchange with the wrong password has been refused
C3_Witness ==
    \E t \in Tasks :
        /\ Done(t, "get_oauth2_token") /\ InstanceCredentialsRight
        /\ ~GrantCredentialsRight(arg[t]) /\ arg[t].grant_type = "password"
        /\ Delivered(t) /\ ret[t] = UnAuthorized

\* the cache value a call of decode is judged against: the one it met at
\* its read of the lock, or the present one when it never came to read
Snapshot(t) == IF snap[t].tag = "unread" THEN cert_keys ELSE snap[t]
KidPresent(t) ==
    /\ arg[t].fmt = "jwt" /\ arg[t].kid # None
    /\ Snapshot(t).tag = "some"
    /\ Unwrap(arg[t].kid) \in DOMAIN Snapshot(t).map
\* the RS256 signature of the token validates against the cached key
SignatureValid(t) ==
    LET key == Snapshot(t).map[Unwrap(arg[t].kid)] IN
    arg[t].alg = "RS256" /\ key.n # "bad" /\ key.e # "bad" /\ arg[t].mat = key.n

\* C4, as claimed: decode succeeds if and only if the token's kid is in
\* the current key set snapshot and the signature validates against that
\* key.
C4_AsClaimed ==
    \A t \in Tasks : Done(t, "decode") =>
        (ret[t].ok <=> KidPresent(t) /\ SignatureValid(t))

\* C4, amended: decode succeeds if and only if the token's kid is in the
\* current key set snapshot, the signature validates against that key, the
\* token has not expired, its payload has the fields of the claim shape
\* asked for, and the lock of the key set is not poisoned.
C4_DecodeSucceedsIff ==
    \A t \in Tasks : Done(t, "decode") =>
        (ret[t].ok <=>
            /\ KidPresent(t) /\ SignatureValid(t)
            /\ arg[t].exp >= clk[t]
            /\ arg[t].payload.complete
            /\ lockres[t] = "ok")
\* a decode has succeeded, with a refresh under way
C4_Witness ==
    \E t \in Tasks : Done(t, "decode") /\ ret[t].ok /\ pc["w1"] = "lk_write"

\* no refresh had completed when the call looked (or would have looked)
NeverRefreshed(t) == Snapshot(t).tag = "none"
SigningKeyNotFound(r) ==
    ~r.ok /\ r.kind = "Other" /\ r.text \in {"Cert Key Empty", "Key id not found"}

\* C5, as claimed: while no load_keys has completed successfully, decode
\* fails with SigningKeyNotFound for every token string.
C5_AsClaimed ==
    \A t \in Tasks : Done(t, "decode") /\ NeverRefreshed(t) =>
        SigningKeyNotFound(ret[t])

\* C5, amended: while no load_keys has completed successfully, decode
\* fails for every token string; it fails with SigningKeyNotFound ("Cert
\* Key Empty") for every token whose header parses, names RS256 and has a
\* kid, unless the lock is poisoned.  Other tokens fail at the earlier
\* step, with that step's failure.
C5_DecodeBeforeRefresh ==
    \A t \in Tasks : Done(t, "decode") /\ NeverRefreshed(t) =>
        /\ ~ret[t].ok
        /\ (arg[t].fmt = "jwt" /\ arg[t].alg = "RS256" /\ arg[t].kid # None
                /\ lockres[t] = "ok" =>
               ret[t] = Other("Cert Key Empty"))
\* an RS256 token with a kid and a good signature has been refused for
\* the empty cache
C5_Witness ==
    \E t \in Tasks :
        /\ Done(t, "decode") /\ NeverRefreshed(t)
        /\ arg[t].alg = "RS256" /\ arg[t].kid # None /\ arg[t].payload.complete
        /\ ret[t] = Other("Cert Key Empty")

\* C6: decode of a token whose header names an algorithm other than RS256
\* fails with UnsupportedAlgorithm ("Algorithm Not Supported") and never
\* comes to the lock of the key set, whatever the state of the cache.
C6_UnsupportedAlgorithmBeforeLookup ==
    \A t \in Tasks :
        op[t] = "decode" /\ arg[t].fmt = "jwt" /\ arg[t].alg # "RS256" =>
            /\ pc[t] = "done"
            /\ ret[t] = Other("Algorithm Not Supported")
            /\ lockres[t] = "none"
            /\ snap[t] = NoSnap
            /\ t \notin cert_lock.readers
\* an HS256 token with a cached kid has been refused with the cache
\* populated and its lock poisoned
C6_Witness ==
    \E t \in Tasks :
        /\ Done(t, "decode") /\ arg[t].alg = "HS256" /\ arg[t].kid # None
        /\ cert_lock.poisoned /\ cert_keys.tag = "some"
        /\ Unwrap(arg[t].kid) \in DOMAIN cert_keys.map

\* a whole value of the cache: absent, or the map of one fetched key list
Complete(cell) ==
    \/ cell.tag = "none"
    \/ cell.tag = "some" /\ \E ks \in KeyLists : cell.map = Collect(ks)

\* C7: a decode running while a load_keys is in flight sees a whole key
\* set: what it reads is absent or the complete map of one fetched list,
\* it is the value the cache holds for as long as the read guard is held,
\* and the key it verifies against is that value's.
C7_NoTornRead ==
    \A t \in Tasks : op[t] = "decode" =>
        /\ (snap[t].tag # "unread" => Complete(snap[t]))
        /\ (pc[t] = "dec_verify" =>
               /\ snap[t] = cert_keys
               /\ Unwrap(tmp[t]) = snap[t].map[Unwrap(arg[t].kid)])
\* a decode holds the previous key set while a refresh that fetched
\* another one waits for the lock
C7_Witness ==
    \E t \in Tasks :
        /\ pc[t] = "dec_verify" /\ snap[t].tag = "some"
        /\ pc["w1"] = "lk_write"
        /\ Collect(Unwrap(tmp["w1"])) # snap[t].map

\* the cache holds exactly the keys of ks by kid, of two with one kid the
\* later
ExactlyFetched(cell, ks) ==
    /\ cell.tag = "some"
    /\ DOMAIN cell.map = {ks[i].kid : i \in DOMAIN ks}
    /\ \A i \in DOMAIN ks :
          (\A j \in DOMAIN ks : j > i => ks[j].kid # ks[i].kid) =>
              cell.map[ks[i].kid] = ks[i]

\* C8, as claimed: load_keys on a 200 replaces the key set with exactly
\* the fetched keys; on any other status it fails with ProviderRejected,
\* on a transport failure with TransportError, the key set untouched.
C8_AsClaimed ==
    \A t \in Tasks : Done(t, "load_keys") =>
        /\ (resp[t].sent /\ resp[t].status = OK =>
               ret[t] = Ok(Unit) /\ ExactlyFetched(cert_keys, resp[t].body.keys))
        /\ (resp[t].sent /\ resp[t].status # OK =>
               /\ ret[t].kind = "ResponseError" /\ ret[t].status = resp[t].status
               /\ cert_keys = pre[t].cert)
        /\ (~resp[t].sent => ret[t] = RequestError /\ cert_keys = pre[t].cert)

\* C8, amended: load_keys on a 200 whose body deserializes as a key list
\* replaces the key set with exactly the fetched keys by kid (of two keys
\* with one kid the later), unless the lock is poisoned, when it fails with
\* WriteLockFailed; on a 200 whose body does not deserialize it fails with
\* RequestError; on any other status it fails with ResponseError carrying
\* the status and the body, or with RequestError when the body cannot be
\* read; on a failure to send it fails with RequestError.  Every failure
\* leaves the key set as it was.
C8_LoadKeysReplacesOrLeaves ==
    \A t \in Tasks : Done(t, "load_keys") =>
        /\ (resp[t].sent /\ resp[t].status = OK /\ resp[t].body.fmt = "keys"
                /\ lockres[t] = "ok" =>
               ret[t] = Ok(Unit) /\ ExactlyFetched(cert_keys, resp[t].body.keys))
        /\ (resp[t].sent /\ resp[t].status = OK /\ resp[t].body.fmt = "keys"
                /\ lockres[t] # "ok" =>
               ret[t] = WriteLockFailed)
        /\ (resp[t].sent /\ resp[t].status = OK /\ resp[t].body.fmt # "keys" =>
               ret[t] = RequestError)
        /\ (resp[t].sent /\ resp[t].status # OK /\ Readable(resp[t].body) =>
               ret[t] = ResponseError(resp[t].status, resp[t].body))
        /\ (resp[t].sent /\ resp[t].status # OK /\ ~Readable(resp[t].body) =>
               ret[t] = RequestError)
        /\ (~resp[t].sent => ret[t] = RequestError)
        /\ (~ret[t].ok => cert_keys = pre[t].cert)
\* a refresh has replaced a key set, and a key of the previous set is gone
C8_Witness ==
    \E t \in Tasks :
        /\ Done(t, "load_keys") /\ ret[t].ok /\ pre[t].cert.tag = "some"
        /\ \E k \in DOMAIN pre[t].cert.map : k \notin DOMAIN cert_keys.map

\* the call verified the token its caller got from get_oauth2_token
IssuedDecode(t) == Done(t, "decode") /\ held[t].has /\ arg[t] = held[t].tok
\* the claims r returns are those of account a
ClaimsOf(r, a) ==
    /\ r.ok
    /\ Unwrap(r.val).email = Profile(a).email
    /\ Unwrap(r.val).given_name = Profile(a).given_name
    /\ Unwrap(r.val).family_name = Profile(a).family_name

\* C9, as claimed: once load_keys has succeeded against the provider's
\* current key set, a token issued by get_oauth2_token and passed to decode
\* is accepted and yields the claims of the account it was obtained for.
C9_AsClaimed ==
    \A t \in Tasks :
        IssuedDecode(t) /\ snap[t] = CellSome(Collect(jwks)) =>
            ClaimsOf(ret[t], held[t].account)

\* C9, amended: a token issued by get_oauth2_token and passed to decode is
\* accepted and yields the claims of the account it was obtained for,
\* provided the cached key set holds the key that signed it, the token has
\* not expired when it is verified and the lock of the key set is not
\* poisoned.
C9_RoundTrip ==
    \A t \in Tasks :
        IssuedDecode(t) /\ lockres[t] = "ok" /\ KidPresent(t)
                /\ SignatureValid(t) /\ arg[t].exp >= clk[t] =>
            ClaimsOf(ret[t], held[t].account)
\* bob's token has been verified after a rotation and a second refresh
C9_Witness ==
    \E t \in Tasks :
        /\ IssuedDecode(t) /\ ret[t].ok /\ held[t].account = "bob"
        /\ arg[t].kid = Some("k2")

\* C10: a call that finds its lock poisoned returns ReadLockFailed (decode)
\* or WriteLockFailed (load_keys, load_client_token): decode neither
\* succeeds nor reports a missing key, and the writers leave their cache
\* as it was.
C10_PoisonedLockSurfaces ==
    \A t \in Tasks : pc[t] = "done" /\ lockres[t] = "poisoned" =>
        /\ (op[t] = "decode" => ret[t] = ReadLockFailed)
        /\ (op[t] = "load_keys" =>
               ret[t] = WriteLockFailed /\ cert_keys = pre[t].cert)
        /\ (op[t] = "load_client_token" =>
               ret[t] = WriteLockFailed /\ token = pre[t].tok)
\* decode has met the poisoned lock of a populated key set that holds its
\* kid, and load_client_token the poisoned lock of the token
C10_Witness ==
    /\ Done("r1", "decode") /\ lockres["r1"] = "poisoned"
    /\ cert_keys.tag = "some"
    /\ Unwrap(arg["r1"].kid) \in DOMAIN cert_keys.map
    /\ Done("w1", "load_client_token") /\ lockres["w1"] = "poisoned"

\* what went wrong between the client and the provider, if anything: the
\* request could not be sent, or the body of the response could not be read
TransportFailed(r) == ~r.sent \/ ~Readable(r.body)

\* C11: verify_token returns the introspection result only for an HTTP
\* 200 reply, and then the one written in the body; every other status,
\* 401 included, yields ResponseError (ProviderRejected) with that status
\* and the body, never Unauthorized; a transport failure (the request is
\* not sent, or the body cannot be read) yields RequestError
\* (TransportError).
C11_IntrospectMapping ==
    \A t \in Tasks : Done(t, "verify_token") =>
        /\ (ret[t].ok =>
               /\ resp[t].sent /\ resp[t].status = OK
               /\ Unwrap(ret[t].val).active = resp[t].body.active)
        /\ (~TransportFailed(resp[t]) /\ resp[t].status # OK =>
               ret[t] = ResponseError(resp[t].status, resp[t].body))
        /\ ret[t] # UnAuthorized
        /\ (TransportFailed(resp[t]) => ret[t] = RequestError)
\* an introspection has been answered 401 and has returned ResponseError
C11_Witness ==
    \E t \in Tasks :
        /\ Done(t, "verify_token")
        /\ resp[t].sent /\ resp[t].status = UNAUTHORIZED
        /\ ret[t] = ResponseError(UNAUTHORIZED, ErrorBody)

\* the call introspected the token its caller got from get_oauth2_token
IntrospectedIssued(t) ==
    Done(t, "verify_token") /\ held[t].has /\ arg[t] = held[t].tok
\* the token was expired, or no token at all, when the answer was given
ExpiredOrGarbage(t) == arg[t].fmt # "jwt" \/ arg[t].exp < clk[t]
\* the response the task holds is the provider's answer to what it sent
IntrospectDelivered(t) ==
    resp[t] = ProviderIntrospect(SentForm(t), jwks, clk[t])
Active(b) == Ok([active |-> b])

\* C12, as claimed: introspecting a token obtained from a successful
\* exchange returns active = true; introspecting an expired or garbage
\* token string returns a successful result with active = false.
C12_AsClaimed ==
    \A t \in Tasks : Done(t, "verify_token") =>
        /\ (IntrospectedIssued(t) => ret[t] = Active(TRUE))
        /\ (ExpiredOrGarbage(t) => ret[t] = Active(FALSE))

\* C12, amended: when the instance has the right client id and secret and
\* the provider's answer reaches the client, introspecting a token
\* obtained from a successful exchange that has not yet expired returns
\* active = true, and introspecting an expired or garbage token string
\* returns a successful result with active = false; when the request
\* cannot be sent the call fails with RequestError (TransportError).
C12_IntrospectActive ==
    \A t \in Tasks : Done(t, "verify_token") =>
        /\ (InstanceCredentialsRight /\ IntrospectDelivered(t) =>
               /\ (IntrospectedIssued(t) /\ ~ExpiredOrGarbage(t) =>
                      ret[t] = Active(TRUE))
               /\ (ExpiredOrGarbage(t) => ret[t] = Active(FALSE)))
        /\ (~resp[t].sent => ret[t] = RequestError)
\* a token from an exchange has been introspected after time has passed
\* and reported active
C12_Witness ==
    \E t \in Tasks :
        /\ IntrospectedIssued(t) /\ IntrospectDelivered(t)
        /\ InstanceCredentialsRight
        /\ clk[t] > 0 /\ ret[t] = Active(TRUE)

\* the call is a successful refresh that fetched the key set the cache
\* already held: the remote key set had not changed since the refresh
\* before it
RepeatedRefresh(t) ==
    /\ Done(t, "load_keys") /\ ret[t].ok
    /\ pre[t].cert = CellSome(Collect(resp[t].body.keys))

\* C13: a successful load_keys repeated while the remote key set is
\* unchanged leaves the lookup of every kid as it was after the refresh
\* before it: the same key (same n and e), or the same absence.
C13_RefreshIdempotent ==
    \A t \in Tasks : RepeatedRefresh(t) =>
        \A kid \in Kids :
            Lookup(FALSE, cert_keys, kid) = Lookup(FALSE, pre[t].cert, kid)
\* the key set of two keys has been fetched a second time
C13_Witness ==
    \E t \in Tasks :
        /\ RepeatedRefresh(t)
        /\ Len(resp[t].body.keys) > 1
        /\ Lookup(FALSE, cert_keys, "k2").ok

\* the requests a call of register_user has sent so far
ExchangeRequest(t) == req[t][1]
AdminRequest(t) == req[t][2]

\* C14: every call of register_user first sends a client-credentials token
\* exchange of its own and never takes the lock of the cached token; the
\* POST to the administrative endpoint carries the access token that
\* exchange returned as bearer credential, whatever the cached token is;
\* the call succeeds only on HTTP 201 and any other status yields
\* ResponseError (ProviderRejected) with the status and the body; when
\* the exchange fails its failure is returned and nothing is sent to the
\* administrative endpoint.
C14_RegisterUsesFreshToken ==
    \A t \in Tasks : op[t] = "register_user" =>
        /\ Len(req[t]) \in {1, 2}
        /\ ExchangeRequest(t) = PostToken(Form(client, client_id, client_secret))
        /\ ExchangeRequest(t).form["grant_type"] = "client_credentials"
        /\ lockres[t] = "none" /\ token_lock.writer # t /\ t \notin token_lock.readers
        /\ (Len(req[t]) = 2 =>
               /\ tmp[t] # None
               /\ AdminRequest(t) = PostUsers(Unwrap(tmp[t]).access_token, arg[t]))
        /\ (pc[t] = "done" /\ tmp[t] = None =>
               /\ Len(req[t]) = 1
               /\ ~ret[t].ok /\ ret[t] = TokenResult(resp[t]))
        /\ (pc[t] = "done" /\ ret[t].ok =>
               Len(req[t]) = 2 /\ resp[t].sent /\ resp[t].status = CREATED)
        /\ (pc[t] = "done" /\ Len(req[t]) = 2 /\ ~TransportFailed(resp[t])
                /\ resp[t].status # CREATED =>
               ret[t] = ResponseError(resp[t].status, resp[t].body))
\* a user has been registered with a token that is not the cached one
C14_Witness ==
    \E t \in Tasks :
        /\ Done(t, "register_user") /\ ret[t].ok
        /\ token # None
        /\ Unwrap(token).access_token # AdminRequest(t).form["authorization"]

Absent(e) == {name \in EnvNames : ~e[name].present}
Unreadable(e) == {name \in EnvNames : env_var(e, name) = None}
\* the order in which new_from_env reads the variables
EnvOrder(name) ==
    CASE name = "KEYCLOAK_CLIENT_ID" -> 1
      [] name = "KEYCLOAK_CLIENT_SECRET" -> 2
      [] name = "KEYCLOAK_REALM" -> 3
      [] OTHER -> 4
\* r is an instance filled from all four variables of e
FilledFrom(r, e) ==
    /\ r.ok
    /\ Unwrap(r.val).client_id = e["KEYCLOAK_CLIENT_ID"].val
    /\ Unwrap(r.val).client_secret = e["KEYCLOAK_CLIENT_SECRET"].val
    /\ Unwrap(r.val).endpoint =
           EndpointOf(e["KEYCLOAK_URL"].val, e["KEYCLOAK_REALM"].val)
    /\ Unwrap(r.val).admin_url =
           AdminUrlOf(e["KEYCLOAK_URL"].val, e["KEYCLOAK_REALM"].val)

\* C15, as claimed: new_from_env fails with ConfigMissing naming the
\* missing variable whenever one of the four variables is absent, and
\* returns a client only when all four are present, filled from them.
C15_AsClaimed ==
    \A t \in Tasks : Done(t, "new_from_env") =>
        /\ (Absent(arg[t]) # {} =>
               /\ ~ret[t].ok /\ ret[t].kind = "ConfigNotFound"
               /\ ret[t].text \in Absent(arg[t]))
        /\ (ret[t].ok => Absent(arg[t]) = {} /\ FilledFrom(ret[t], arg[t]))

\* C15, amended: new_from_env fails with ConfigMissing whenever one of the
\* four variables is absent or has a value that is not valid Unicode, and
\* names the first such variable in the order client id, client secret,
\* realm, URL; it returns a client only when all four are present and
\* valid Unicode, and that client is filled from all four.
C15_NewFromEnv ==
    \A t \in Tasks : Done(t, "new_from_env") =>
        /\ (Unreadable(arg[t]) # {} =>
               /\ ~ret[t].ok /\ ret[t].kind = "ConfigNotFound"
               /\ ret[t].text \in Unreadable(arg[t])
               /\ \A name \in Unreadable(arg[t]) :
                      EnvOrder(ret[t].text) <= EnvOrder(name))
        /\ (ret[t].ok => Unreadable(arg[t]) = {} /\ FilledFrom(ret[t], arg[t]))
        /\ (ret[t].ok =>
               /\ client_id = Unwrap(ret[t].val).client_id
               /\ client_secret = Unwrap(ret[t].val).client_secret
               /\ endpoint = Unwrap(ret[t].val).endpoint
               /\ admin_url = Unwrap(ret[t].val).admin_url)
\* construction has failed for the realm alone, and has named it
C15_Witness ==
    \E t \in Tasks :
        /\ Done(t, "new_from_env")
        /\ Absent(arg[t]) = {"KEYCLOAK_REALM"}
        /\ ret[t] = ConfigNotFound("KEYCLOAK_REALM")

\* t has refreshed successfully and no write() was admitted after its own
WroteLast(t) ==
    /\ Done(t, "load_keys") /\ ret[t].ok
    /\ cert_lock.last = t /\ cert_lock.writer = NoTask
\* the two calls ran concurrently: both had begun, the cache still empty,
\* before either wrote
Overlapped(t, u) ==
    /\ t # u
    /\ Done(t, "load_keys") /\ Done(u, "load_keys") /\ ret[t].ok /\ ret[u].ok
    /\ pre[t].cert = CellNone /\ pre[u].cert = CellNone

\* C16: concurrent calls of load_keys each send a request of their own
\* and hold a response of their own, and once they have completed the key
\* set is exactly the set fetched by the call write() admitted last,
\* never a union or mixture of the fetched sets.
C16_LastWriterWins ==
    \A t \in Tasks :
        /\ (op[t] = "load_keys" =>
               req[t] = << Request("GET", <<endpoint, "/certs">>, NoForm) >>)
        /\ (WroteLast(t) =>
               /\ cert_keys = CellSome(Collect(resp[t].body.keys))
               /\ ExactlyFetched(cert_keys, resp[t].body.keys))
\* two refreshes that ran concurrently and fetched different sets have
\* completed, and a key only the first writer fetched is gone
C16_Witness ==
    \E t \in Tasks : \E u \in Tasks :
        /\ Overlapped(t, u) /\ WroteLast(t)
        /\ \E k \in DOMAIN Collect(resp[u].body.keys) : k \notin DOMAIN cert_keys.map

Aborted(t) == pc[t] = "aborted" /\ op[t] \in {"load_keys", "load_client_token"}
\* the lock was last taken for writing by a call other than t's aborted one
WrittenByAnother(l, t) == l.last \notin {t, NoTask}

\* C17: after a load_keys or load_client_token is aborted where it is
\* suspended, the aborted call holds no lock and has not written: the key
\* set and the cached token are what they were when the call started, or
\* what another call has written, and no reader admitted to either lock
\* meets a partially written value.
C17_AbortLeavesCachesWhole ==
    \A t \in Tasks : Aborted(t) =>
        /\ lockres[t] = "none"
        /\ cert_lock.writer # t /\ token_lock.writer # t
        /\ (cert_keys = pre[t].cert \/ WrittenByAnother(cert_lock, t))
        /\ (token = pre[t].tok \/ WrittenByAnother(token_lock, t))
        /\ (CanRead(cert_lock) => Complete(cert_keys))
\* a refresh of a populated key set has been aborted with its response
\* outstanding, and a token acquisition likewise
C17_Witness ==
    \E t \in Tasks :
        /\ Aborted(t) /\ op[t] = "load_keys"
        /\ pre[t].cert.tag = "some" /\ cert_keys = pre[t].cert
        /\ token # None

\* an RS256 token whose header parses
Rs256(tok) == tok.fmt = "jwt" /\ tok.alg = "RS256"

\* C18, as claimed: an RS256 token whose header has no kid fails with
\* MalformedToken whatever the cache state (empty, populated or poisoned),
\* and an RS256 token whose kid is not in the current key set fails with
\* SigningKeyNotFound whatever its signature or expiry.
C18_AsClaimed ==
    \A t \in Tasks : Done(t, "decode") /\ Rs256(arg[t]) =>
        /\ (arg[t].kid = None => ret[t] = Other("KID not specified"))
        /\ (arg[t].kid # None /\ ~KidPresent(t) => SigningKeyNotFound(ret[t]))

\* C18, amended: decode reports the failure of the first failing step in
\* the order algorithm, kid, lock, key lookup, signature and expiry: an
\* RS256 token whose header has no kid fails with MalformedToken ("KID not
\* specified") without coming to the lock, whether the cache is empty,
\* populated or poisoned; an RS256 token with a kid fails with
\* ReadLockFailed when the lock is poisoned, whatever the key set holds;
\* when the lock is not poisoned, a token whose kid is not in the key set
\* fails with SigningKeyNotFound whatever its signature, payload and
\* expiry; and the signature and the expiry are judged only for a kid that
\* was found.
C18_FirstFailingStep ==
    \A t \in Tasks : Done(t, "decode") /\ Rs256(arg[t]) =>
        /\ (arg[t].kid = None =>
               /\ ret[t] = Other("KID not specified")
               /\ lockres[t] = "none" /\ snap[t] = NoSnap)
        /\ (arg[t].kid # None /\ lockres[t] = "poisoned" =>
               ret[t] = ReadLockFailed)
        /\ (arg[t].kid # None /\ lockres[t] = "ok" /\ ~KidPresent(t) =>
               /\ SigningKeyNotFound(ret[t])
               /\ ret[t] = IF snap[t].tag = "none" THEN Other("Cert Key Empty")
                           ELSE Other("Key id not found"))
        /\ (ret[t].kind = "JWTError" => lockres[t] = "ok" /\ KidPresent(t))
\* an expired token with a kid the populated key set does not have has
\* been refused for the kid
C18_Witness ==
    \E t \in Tasks :
        /\ Done(t, "decode") /\ Rs256(arg[t]) /\ arg[t].kid # None
        /\ snap[t].tag = "some" /\ ~KidPresent(t)
        /\ arg[t].exp < now
        /\ ret[t] = Other("Key id not found")

\* the validation read the clock after the token's exp
Expired(t) == arg[t].exp < clk[t]
InvalidToken(r) == ~r.ok /\ r.kind = "JWTError"

\* C19, as claimed: for an RS256 token whose kid is in the current key
\* set, decode fails with InvalidToken whenever the signature does not
\* validate against the cached key or the token has expired.
C19_AsClaimed ==
    \A t \in Tasks : Done(t, "decode") /\ Rs256(arg[t]) /\ KidPresent(t) =>
        (~SignatureValid(t) \/ Expired(t) => InvalidToken(ret[t]))

\* C19, amended: for an RS256 token whose kid is in the current key set,
\* decode fails with InvalidToken (JWTError) whenever the signature does
\* not validate against the cached key or the token has expired when it
\* is validated, an expired token with a valid signature included, unless
\* the lock of the key set is poisoned, when it fails with ReadLockFailed
\* before either is judged.
C19_BadSignatureOrExpired ==
    \A t \in Tasks : Done(t, "decode") /\ Rs256(arg[t]) /\ KidPresent(t) =>
        /\ (lockres[t] = "ok" /\ (~SignatureValid(t) \/ Expired(t)) =>
               InvalidToken(ret[t]))
        /\ (lockres[t] = "ok" /\ SignatureValid(t) /\ arg[t].payload.complete
                /\ Expired(t) =>
               ret[t] = JWTError("ExpiredSignature"))
        /\ (lockres[t] = "poisoned" => ret[t] = ReadLockFailed)
\* an expired token with a valid signature has been refused
C19_Witness ==
    \E t \in Tasks :
        /\ Done(t, "decode") /\ Rs256(arg[t]) /\ KidPresent(t)
        /\ lockres[t] = "ok" /\ SignatureValid(t) /\ Expired(t)
        /\ ret[t] = JWTError("ExpiredSignature")

(***************************************************************************)
(* Verification twice: r1 and c1 verify tokens while w1 refreshes the      *)
(* keys, time passes and the lock of the key set may be poisoned.          *)
(***************************************************************************)
Verifiers == {"r1", "c1"}
VerifyTokens ==
    { Garbage, Jwt("RS256", Some("k2"), "m2", MaxTime, Profile("alice")) }
    \cup { Jwt("RS256", Some("k1"), "m1", x, Profile("alice")) : x \in 0..MaxTime }
NextVerify ==
    \/ \E t \in Verifiers : \E tok \in VerifyTokens : CallDecode(t, tok)
    \/ \E t \in Verifiers : DecodeRead(t)
    \/ \E t \in Verifiers : DecodeVerify(t)
    \/ CallLoadKeys("w1")
    \/ LoadKeysResponse("w1", Resp(OK, KeysBody(jwks)))
    \/ LoadKeysWrite("w1")
    \/ LoadKeysStore("w1")
    \/ LoadKeysUnlock("w1")
    \/ Tick
    \/ CertWriterPanics
SpecVerify == InitKeys /\ [][NextVerify]_vars

\* a step of t's call
StepOf(t) ==
    <<pc[t], arg[t], ret[t], snap[t], lockres[t], clk[t]>>' #
        <<pc[t], arg[t], ret[t], snap[t], lockres[t], clk[t]>>
\* no step of a decode writes either cache, and the call holds no request
DecodeFrame ==
    \A t \in Verifiers :
        StepOf(t) => UNCHANGED <<cert_keys, token>> /\ req'[t] = <<>>
\* two completed calls of decode with the same token that read the same
\* snapshot of the key set
SameCall(t, u) ==
    /\ Done(t, "decode") /\ Done(u, "decode")
    /\ arg[t] = arg[u] /\ Snapshot(t) = Snapshot(u)

FrameRequests ==
    { client,
      with_client_secret(with_client_id(username_password("bob", "pw-bob"),
                                        "sc"), "s2") }
NextFrame ==
    \/ \E c \in ScCredentials : CallGetScOauth2Token("c1", c[1], c[2])
    \/ \E r \in {ProviderToken(SentForm("c1"), jwks, now), SendErr} :
          GetScOauth2TokenResponse("c1", r)
    \/ \E request \in FrameRequests : CallGetOauth2Token("c1", request)
    \/ \E r \in {ProviderToken(SentForm("c1"), jwks, now), SendErr} :
          GetOauth2TokenResponse("c1", r)
    \/ held["c1"].has /\ CallVerifyToken("c1", held["c1"].tok)
    \/ \E r \in {ProviderIntrospect(SentForm("c1"), jwks, now), SendErr} :
          VerifyTokenResponse("c1", r)
    \/ \E user \in NewUsers : CallRegisterUser("c1", user)
    \/ \E r \in {ProviderToken(SentForm("c1"), jwks, now), SendErr} :
          RegisterUserToken("c1", r)
    \/ \E r \in {SendErr, Resp(CREATED, TextBody), Resp(UNAUTHORIZED, ErrorBody)} :
          RegisterUserResponse("c1", r)
    \/ CallLoadKeys("w1")
    \/ LoadKeysResponse("w1", Resp(OK, KeysBody(jwks)))
    \/ LoadKeysWrite("w1")
    \/ LoadKeysStore("w1")
    \/ LoadKeysUnlock("w1")
    \/ CallLoadClientToken("w1")
    \/ LoadClientTokenResponse("w1", ProviderToken(SentForm("w1"), jwks, now))
    \/ LoadClientTokenWrite("w1")
    \/ LoadClientTokenStore("w1")
    \/ Tick
SpecFrame == InitKeys /\ [][NextFrame]_vars

\* the calls that only use the instance
UsesOnly ==
    {"get_oauth2_token", "get_sc_oauth2_token", "verify_token", "register_user"}
\* no step of such a call changes the instance: neither cache nor its
\* lock, neither the credentials nor the endpoints
InstanceFrame ==
    \A t \in Tasks :
        StepOf(t) /\ op'[t] \in UsesOnly => UNCHANGED <<cfgVars, keyVars, tokVars>>
\* t has sent the request of a get_oauth2_token
Transmitted(t) ==
    op[t] = "get_oauth2_token" /\ pc[t] \in {"tok_send", "done"}
\* the form carries the instance's own client id and secret
OwnCredentials(form) ==
    /\ Has(form, "client_id") /\ form["client_id"] = client_id
    /\ Has(form, "client_secret") /\ form["client_secret"] = client_secret

\* C21: get_oauth2_token, get_sc_oauth2_token, verify_token and
\* register_user change no instance state: no step of theirs changes the
\* key set, the cached token, the credentials or the endpoints, and every
\* get_oauth2_token, one after a get_sc_oauth2_token with a client id and
\* secret of its own included, transmits the instance's client id and
\* secret whatever id and secret the caller's request carries.
C21_ExchangeLeavesInstance ==
    /\ [][InstanceFrame]_vars
    /\ [](\A t \in Tasks : Transmitted(t) => OwnCredentials(SentForm(t)))
\* c1 keeps a token it obtained as client sc with get_sc_oauth2_token and
\* has then sent a get_oauth2_token whose request names sc and its secret:
\* the form carries the instance's credentials, and the caches are filled
C21_Witness ==
    /\ Transmitted("c1") /\ pc["c1"] = "tok_send"
    /\ held["c1"].has /\ held["c1"].account = "sc"
    /\ arg["c1"].client_id = "sc" /\ arg["c1"].client_secret = "s2"
    /\ OwnCredentials(SentForm("c1")) /\ client_id # "sc"
    /\ cert_keys # CellNone /\ token # None

(***************************************************************************)
(* The cached client token: w1 and c1 acquire it, in turn and at once,     *)
(* over a network that may fail or answer in the provider's place, while   *)
(* time passes and the lock of the cached token may be poisoned.           *)
(***************************************************************************)
NextClientToken ==
    \/ \E t \in Refreshers : CallLoadClientToken(t)
    \/ \E t \in Refreshers :
          \E r \in TokenReplies(SentForm(t)) : LoadClientTokenResponse(t, r)
    \/ \E t \in Refreshers : LoadClientTokenWrite(t)
    \/ \E t \in Refreshers : LoadClientTokenStore(t)
    \/ Tick
    \/ TokenWriterPanics
SpecClientToken == InitKeys /\ [][NextClientToken]_vars

\* the cached token is the whole TokenResponse of the body t received
CachedFrom(cell, t) ==
    /\ Deserializes(resp[t].body)
    /\ cell = Some(TokenResponse(resp[t].body))
\* a step of load_client_token changes the cached token only where the
\* call, its exchange done, stores the response it received and returns
\* Ok; a step that returns a failure leaves the cached token unchanged
StoresOwnResponse ==
    \A t \in Tasks :
        StepOf(t) /\ op'[t] = "load_client_token" =>
            /\ token' # token =>
                  /\ token_lock.writer = t /\ resp[t].sent /\ resp[t].status = OK
                  /\ CachedFrom(token', t)
                  /\ pc'[t] = "done" /\ ret'[t] = Ok(Unit)
            /\ pc'[t] = "done" /\ ~ret'[t].ok => token' = token
\* t's call ended in the failure of its exchange
ExchangeFailed(t) ==
    Done(t, "load_client_token") /\ ~TokenResult(resp[t]).ok

\* C22: after any sequence of load_client_token calls the cached token is
\* absent or one complete TokenResponse: a call that succeeds replaces the
\* cached token by the whole response of its own client-credentials
\* exchange, and a call whose exchange fails returns that failure and
\* leaves the cached token as it found it.
C22_TokenReplacedWholesale ==
    /\ [][StoresOwnResponse]_vars
    /\ [](\A t \in Tasks :
            /\ (op[t] = "load_client_token" =>
                   req[t] = << PostToken(Form(client, client_id, client_secret)) >>)
            /\ (Done(t, "load_client_token") /\ ret[t].ok
                    /\ token_lock.last = t =>
                   CachedFrom(token, t))
            /\ (ExchangeFailed(t) =>
                   /\ ret[t] = TokenResult(resp[t])
                   /\ (token = pre[t].tok \/ WrittenByAnother(token_lock, t))))
\* a call of u cached a token, a call of t replaced it by a different one,
\* and a later call of t failed in its exchange and left t's token cached
C22_Witness ==
    \E t \in Tasks :
        /\ ExchangeFailed(t) /\ token_lock.last = t
        /\ token # None /\ token = pre[t].tok
        /\ \E u \in Tasks \ {t} :
              /\ Done(u, "load_client_token") /\ ret[u].ok
              /\ Deserializes(resp[u].body)
              /\ token # Some(TokenResponse(resp[u].body))

(***************************************************************************)
(* Verification beside a refresh that may wait for ever: r1 verifies while *)
(* w1 refreshes the keys and the client token over a network that may      *)
(* never answer, and either lock may be poisoned.  read() returns once no  *)
(* writer holds the lock and the validation runs to its end, so r1's steps *)
(* are taken when they stay possible; nothing makes the network answer.    *)
(***************************************************************************)
WaitTokens ==
    { Jwt("RS256", Some("k1"), "m1", MaxTime, Profile("alice")),
      Jwt("RS256", Some("k2"), "m2", MaxTime, Profile("alice")) }
NextWait ==
    \/ \E tok \in WaitTokens : CallDecode("r1", tok)
    \/ DecodeRead("r1")
    \/ DecodeVerify("r1")
    \/ CallLoadKeys("w1")
    \/ \E r \in {SendErr} \cup {Resp(OK, KeysBody(ks)) : ks \in KeyLists \ {<<>>}} :
          LoadKeysResponse("w1", r)
    \/ LoadKeysWrite("w1")
    \/ LoadKeysStore("w1")
    \/ LoadKeysUnlock("w1")
    \/ CallLoadClientToken("w1")
    \/ \E r \in {ProviderToken(SentForm("w1"), jwks, now), SendErr} :
          LoadClientTokenResponse("w1", r)
    \/ LoadClientTokenWrite("w1")
    \/ LoadClientTokenStore("w1")
    \/ CertWriterPanics
    \/ TokenWriterPanics
SpecWait ==
    /\ InitKeys /\ [][NextWait]_vars
    /\ WF_vars(DecodeRead("r1")) /\ WF_vars(DecodeVerify("r1"))

\* t holds neither lock, as writer or as reader
HoldsNoLock(t) ==
    /\ cert_lock.writer # t /\ t \notin cert_lock.readers
    /\ token_lock.writer # t /\ t \notin token_lock.readers
\* a refresh is waiting on its fetch and a decode has come to read()
ReadBesideFetch(t, u) ==
    /\ pc[t] = "dec_read" /\ op[u] \in {"load_keys", "load_client_token"}
    /\ Suspended(pc[u])
\* no call holds a lock while it is suspended on its request; the write
\* guard is taken with the response received and parsed
NoLockAcrossFetch ==
    \A t \in Tasks :
        /\ (Suspended(pc[t]) => HoldsNoLock(t))
        /\ (cert_lock.writer = t => KeysResult(resp[t]).ok /\ tmp[t] = KeysResult(resp[t]).val)
        /\ (token_lock.writer = t => TokenResult(resp[t]).ok /\ tmp[t] = TokenResult(resp[t]).val)
\* beside a waiting refresh read() is admitted at once
ReadAdmitted == ReadBesideFetch("r1", "w1") => ENABLED DecodeRead("r1")
\* beside a waiting refresh read() returns the guard of the value the
\* refresh found
AcquiresOld ==
    ReadBesideFetch("r1", "w1") /\ StepOf("r1") =>
        /\ lockres'["r1"] = "ok"
        /\ snap'["r1"] = cert_keys /\ cert_keys = pre["w1"].cert
\* the same, a poisoned lock aside, at which decode returns ReadLockFailed
AcquiresOldOrPoisoned ==
    ReadBesideFetch("r1", "w1") /\ StepOf("r1") =>
        /\ snap'["r1"] = cert_keys /\ cert_keys = pre["w1"].cert
        /\ IF cert_lock.poisoned
           THEN lockres'["r1"] = "poisoned" /\ ret'["r1"] = ReadLockFailed
                   /\ pc'["r1"] = "done"
           ELSE lockres'["r1"] = "ok"
\* if from some time on the refresh waits on its fetch for ever, every
\* decode that has come to read() completes
NeverBlocked ==
    <>[](Suspended(pc["w1"])) => (pc["r1"] = "dec_read" ~> pc["r1"] = "done")

\* C23, as claimed: no operation holds the lock of the key set or of the
\* cached token while it is suspended on a network request, the write
\* guard being taken after the response is received and parsed; so while
\* a refresh waits on its fetch a decode always acquires read access and
\* completes against the old snapshot, and a refresh whose fetch never
\* returns does not block decode.
C23_AsClaimed ==
    /\ [](NoLockAcrossFetch /\ ReadAdmitted)
    /\ [][AcquiresOld]_vars
    /\ NeverBlocked

\* C23, amended: no operation holds the lock of the key set or of the
\* cached token while it is suspended on a network request, the write
\* guard being taken after the response is received and parsed; so while
\* a refresh waits on its fetch read() admits a decode at once, which
\* completes against the old snapshot unless the lock is poisoned, when
\* it returns ReadLockFailed, and a refresh whose fetch never returns
\* does not block decode.
C23_NoLockAcrossFetch ==
    /\ [](NoLockAcrossFetch /\ ReadAdmitted)
    /\ [][AcquiresOldOrPoisoned]_vars
    /\ NeverBlocked
\* a decode has verified a token against the populated key set that a
\* refresh, still waiting on its fetch, found
C23_Witness ==
    /\ Done("r1", "decode") /\ ret["r1"].ok
    /\ op["w1"] = "load_keys" /\ pc["w1"] = "lk_send"
    /\ pre["w1"].cert # CellNone /\ Snapshot("r1") = pre["w1"].cert
    /\ cert_keys = pre["w1"].cert

=============================================================================
